---------------------------- MODULE Spec2Model ----------------------------
(***************************************************************************)
(* Model of the depth-assessment and opportunity-scoring scripts of        *)
(* dexarb (src/scripts).  Each program is modelled under its own           *)
(* specification:                                                          *)
(*   SpecProfiler  the quote-matrix runs of verify_whitelist_enhanced.py,  *)
(*                 verify_quickswap_pools.py and verify_whitelist.py       *)
(*   SpecDedup     analyze_dedup_corrected.py and analyze_price_log.py     *)
(*   SpecPriceLog  analyze_price_log.py over longer logs                   *)
(*   SpecV2        the constant-product quote of verify_v2_pools.py and    *)
(*                 depth_assessment.py                                     *)
(*   SpecDepth     main, assess_v3_pool and build_assessment of            *)
(*                 depth_assessment.py                                     *)
(*   SpecWhitelist the pool checks and exit code of verify_whitelist.py    *)
(*   SpecBlacklist check_blacklist_pool of verify_whitelist.py             *)
(*   SpecReport    main and parse_opportunities of                         *)
(*                 hourly_discord_report.py                                *)
(* Python floats are modelled as exact rationals <<num, den>> in lowest    *)
(* terms, den > 0; Python None is the empty tuple.                         *)
(***************************************************************************)
EXTENDS Integers, Sequences, FiniteSets, TLC

VARIABLES
    \* --- quote-matrix runs (SpecProfiler) ---
    script,          \* which program runs: "enhanced" | "quickswap" | "whitelist"
    pc,              \* position of the run
    pool_idx,        \* number of pools main has finished
    size_idx,        \* index into QUOTE_SIZES_USD of the next probe
    baseline_rate,   \* local baseline_rate of the matrix loop
    result,          \* the result dict under construction / last returned
    matrix_results,  \* main's list of results (fields main reads afterwards)
    listed,          \* the list of the config file each pool came from
    exit_code,       \* the code main exits with, None before
    \* --- de-duplicating aggregator and price-log analysis (SpecDedup) ---
    dd_pc,           \* "load" | "dedup_done" | "price_log_done"
    n_rows,          \* CSV rows loaded so far
    block_prices,    \* (pair, block) -> items of the per-key dict, insertion order
    size_results,    \* trade size -> pair_block_best / pair_totals / totals
    pair_combos,     \* analyze_price_log: combo_key -> stats
    \* --- constant-product quote (SpecV2) ---
    v2_impl,         \* "verify_v2_pools" | "depth_assessment"
    v2_reserve_in,
    v2_reserve_out,
    v2_quotes,       \* the probes made so far, ascending in amount_in
    v2_reason,       \* "" or why the pool was given up before any probe
    \* --- depth_assessment (SpecDepth) ---
    da_pc,           \* "quote" | "built"
    da_pool,         \* the pool at hand: "ok" | "unknown_token" | "no_quoter"
    da_results,      \* the results dict, in TRADE_SIZES_USD order (NoQuote: None)
    assessment,      \* the assessment dict returned last
    assessments,     \* main's list of assessments (pool, verdict, max_trade_usd)
    \* --- verify_whitelist's pool checks (SpecWhitelist) ---
    vw_pc,           \* "whitelist" | "blacklist" | "observation" | "done"
    vw_result,       \* what verify_pool returned last, with the checks it ran
    whitelist_results,
    blacklist_results,
    observation_results,
    vw_exit_code,    \* the code main exits with, None before
    \* --- check_blacklist_pool of verify_whitelist.py (SpecBlacklist) ---
    bl_pc,           \* "quotes" | "returned"
    bl_known,        \* whether the pool entry's pair resolves to token addresses
    bl_calls,        \* the eth_call responses so far, in call order
    bl_result,       \* the dict returned
    \* --- hourly_discord_report (SpecReport) ---
    rp_now,          \* the wall clock, in ticks
    rp_log,          \* the lines of the paper-trading pane, oldest first
    next_report,     \* main's next_report
    reports          \* the reports sent: period and the log lines counted

profVars  == <<script, pc, pool_idx, size_idx, baseline_rate, result, matrix_results,
               listed, exit_code>>
dedupVars == <<dd_pc, n_rows, block_prices, size_results, pair_combos>>
v2Vars    == <<v2_impl, v2_reserve_in, v2_reserve_out, v2_quotes, v2_reason>>
depthVars == <<da_pc, da_pool, da_results, assessment, assessments>>
wlVars    == <<vw_pc, vw_result, whitelist_results, blacklist_results,
               observation_results, vw_exit_code>>
blVars    == <<bl_pc, bl_known, bl_calls, bl_result>>
reportVars == <<rp_now, rp_log, next_report, reports>>
vars      == <<profVars, dedupVars, v2Vars, depthVars, wlVars, blVars, reportVars>>

None == <<>>

(***************************************************************************)
(* Exact rational arithmetic standing for Python's float arithmetic.       *)
(***************************************************************************)
Abs(n) == IF n < 0 THEN -n ELSE n

RECURSIVE GCD(_, _)
GCD(a, b) == IF b = 0 THEN a ELSE GCD(b, a % b)

Rat(n, d) ==
    LET g == GCD(Abs(n), d)
    IN  IF n = 0 THEN <<0, 1>> ELSE <<n \div g, d \div g>>

RatInt(n)    == <<n, 1>>
RatNeg(x)    == <<-x[1], x[2]>>
RatAbs(x)    == <<Abs(x[1]), x[2]>>
RatAdd(x, y) ==
    LET g == GCD(x[2], y[2])
    IN  Rat(x[1] * (y[2] \div g) + y[1] * (x[2] \div g), (x[2] \div g) * y[2])
RatSub(x, y) == RatAdd(x, RatNeg(y))
RatMul(x, y) ==
    LET g1 == GCD(Abs(x[1]), y[2])
        g2 == GCD(Abs(y[1]), x[2])
    IN  IF x[1] = 0 \/ y[1] = 0 THEN <<0, 1>>
        ELSE <<(x[1] \div g1) * (y[1] \div g2), (x[2] \div g2) * (y[2] \div g1)>>
\* x / y for y > 0
RatDiv(x, y) == RatMul(x, <<y[2], y[1]>>)
RatLt(x, y)  == x[1] * y[2] < y[1] * x[2]
RatLe(x, y)  == x[1] * y[2] <= y[1] * x[2]
RatMax(x, y) == IF RatLt(x, y) THEN y ELSE x

(***************************************************************************)
(* Quote-matrix runs.                                                      *)
(***************************************************************************)
\* Pools main iterates over.
NumPools == 2

QUOTE_SIZES_USD == <<1, 10, 100, 1000, 5000>>

THRESHOLDS ==
    [ marginal_max_size  |-> 100,
      whitelist_min_size |-> 1000,
      impact_whitelist   |-> RatInt(5),
      impact_marginal    |-> RatInt(10),
      min_liquidity_base |-> 1000000000 ]

\* amount_raw = size_usd * USDC_UNIT; the product is never formed, the rate
\* raw_out / amount_raw is computed as (raw_out / size_usd) / USDC_UNIT.
USDC_UNIT == 1000000

\* What get_pool_state can return: no bytecode; bytecode with sqrtPrice 0 or
\* not; liquidity() just below or at the floor.
PoolStates ==
    { [exists |-> FALSE, initialized |-> FALSE, liquidity |-> 0] } \cup
    { [exists |-> TRUE, initialized |-> i, liquidity |-> l] :
        i \in BOOLEAN, l \in {999999999, 1000000000} }

\* What the quoter can return for size_usd: 0 for a revert, a transport error
\* or a zero quote; otherwise 1000 raw units per dollar at $1 and, at a larger
\* size, that rate degraded by -3 % (a better rate), 1 %, 8 % or 20 %.
QuoteOutcomes(size_usd) ==
    IF size_usd = 1 THEN {0, 1000}
    ELSE {0} \cup { size_usd * 10 * (100 - d) : d \in {-3, 1, 8, 20} }

\* raw_out / amount_raw
Rate(raw_out, size_usd) == RatDiv(Rat(raw_out, size_usd), RatInt(USDC_UNIT))

\* impact_pct of one loop iteration
ImpactPct(baseline, raw_out, size_usd) ==
    IF baseline # None /\ RatLt(RatInt(0), baseline) /\ raw_out > 0
    THEN RatMul(RatAbs(RatSub(RatInt(1), RatDiv(Rate(raw_out, size_usd), baseline))),
                RatInt(100))
    ELSE None

\* The baseline taken from the first size that succeeds, whichever it is.
TrackBaselineFirstSuccess(baseline, size_usd, raw_out) ==
    IF baseline = None /\ raw_out > 0 THEN Rate(raw_out, size_usd) ELSE baseline

\* "Track baseline from $1"
TrackBaseline(baseline, size_usd, raw_out) ==
    IF size_usd = 1 /\ raw_out > 0 THEN Rate(raw_out, size_usd) ELSE baseline

\* The maximum recorded without looking at "passed".
TrackMaxAnyOutcome(r, size_usd, passed, impact_pct) ==
    IF impact_pct # None
    THEN [r EXCEPT !.max_working_size = size_usd, !.impact_at_max = impact_pct]
    ELSE [r EXCEPT !.max_working_size = size_usd]

\* "if passed: ..." at the end of one loop iteration
TrackMax(r, size_usd, passed, impact_pct) ==
    IF ~passed THEN r
    ELSE IF impact_pct # None
         THEN [r EXCEPT !.max_working_size = size_usd, !.impact_at_max = impact_pct]
         ELSE [r EXCEPT !.max_working_size = size_usd]

\* The bands closed at their upper ends: "<=" where the scorer has "<".
calculate_liquidity_score_le(max_size, impact) ==
    IF max_size = 0 THEN 0
    ELSE IF max_size >= 5000 THEN
        IF impact = None \/ RatLe(impact, RatInt(2)) THEN 100
        ELSE IF RatLe(impact, RatInt(5)) THEN 90
        ELSE IF RatLe(impact, RatInt(10)) THEN 75
        ELSE 60
    ELSE IF max_size >= 1000 THEN
        IF impact = None \/ RatLe(impact, RatInt(5)) THEN 70
        ELSE IF RatLe(impact, RatInt(10)) THEN 50
        ELSE 30
    ELSE IF max_size >= 100 THEN
        IF impact = None \/ RatLe(impact, RatInt(10)) THEN 35
        ELSE 20
    ELSE IF max_size >= 10 THEN 10
    ELSE 5

\* verify_whitelist_enhanced.calculate_liquidity_score
calculate_liquidity_score(max_size, impact) ==
    IF max_size = 0 THEN 0
    ELSE IF max_size >= 5000 THEN
        IF impact = None \/ RatLt(impact, RatInt(2)) THEN 100
        ELSE IF RatLt(impact, RatInt(5)) THEN 90
        ELSE IF RatLt(impact, RatInt(10)) THEN 75
        ELSE 60
    ELSE IF max_size >= 1000 THEN
        IF impact = None \/ RatLt(impact, RatInt(5)) THEN 70
        ELSE IF RatLt(impact, RatInt(10)) THEN 50
        ELSE 30
    ELSE IF max_size >= 100 THEN
        IF impact = None \/ RatLt(impact, RatInt(10)) THEN 35
        ELSE 20
    ELSE IF max_size >= 10 THEN 10
    ELSE 5

\* verify_quickswap_pools.calculate_liquidity_score
qs_calculate_liquidity_score(max_size, impact) ==
    IF max_size = 0 THEN 0
    ELSE IF max_size >= 5000 THEN
        IF impact = None \/ RatLt(impact, RatInt(2)) THEN 100
        ELSE IF RatLt(impact, RatInt(5)) THEN 90
        ELSE IF RatLt(impact, RatInt(10)) THEN 75
        ELSE 60
    ELSE IF max_size >= 1000 THEN
        IF impact = None \/ RatLt(impact, RatInt(5)) THEN 70
        ELSE IF RatLt(impact, RatInt(10)) THEN 50
        ELSE 30
    ELSE IF max_size >= 100 THEN
        IF impact = None \/ RatLt(impact, RatInt(10)) THEN 35
        ELSE 20
    ELSE IF max_size >= 10 THEN 10
    ELSE 5

\* A returned (category, reason) tuple; the reason is kept up to its fixed text.
Verdict(category, reason) == [raised |-> FALSE, category |-> category, reason |-> reason]
\* The exception a format spec applied to None raises.
TypeError == [raised |-> TRUE, category |-> "", reason |-> ""]
\* f"...{impact:.1f}...": formatting None with a float format spec raises TypeError.
FormatImpact(impact, category, reason) ==
    IF impact = None THEN TypeError ELSE Verdict(category, reason)

\* verify_whitelist_enhanced.categorize_pool
categorize_pool(r) ==
    LET max_size   == r.max_working_size
        impact     == r.impact_at_max
        pool_state == r.pool_state
    IN  IF ~pool_state.exists THEN Verdict("blacklist", "Pool doesn't exist")
        ELSE IF ~pool_state.initialized
            THEN Verdict("blacklist", "Pool not initialized (sqrtPrice = 0)")
        ELSE IF pool_state.liquidity < THRESHOLDS.min_liquidity_base
            THEN Verdict("blacklist", "Liquidity too low")
        ELSE IF max_size = 0 THEN Verdict("blacklist", "All quotes failed")
        ELSE IF max_size >= THRESHOLDS.whitelist_min_size THEN
            IF impact = None \/ RatLe(impact, THRESHOLDS.impact_whitelist)
                THEN FormatImpact(impact, "whitelist", "Excellent")
            ELSE IF RatLe(impact, THRESHOLDS.impact_marginal)
                THEN FormatImpact(impact, "marginal", "Works but high impact")
            ELSE FormatImpact(impact, "blacklist", "Unacceptable impact")
        ELSE IF max_size >= 10 /\ max_size <= THRESHOLDS.marginal_max_size THEN
            IF impact = None \/ RatLe(impact, THRESHOLDS.impact_marginal)
                THEN FormatImpact(impact, "marginal", "Small trade pool")
            ELSE FormatImpact(impact, "blacklist", "High impact even at small size")
        ELSE IF max_size < 10
            THEN Verdict("blacklist", "Insufficient depth")
        ELSE Verdict("blacklist", "Unknown issue")

\* verify_quickswap_pools.categorize_pool
qs_categorize_pool(r) ==
    LET max_size   == r.max_working_size
        impact     == r.impact_at_max
        pool_state == r.pool_state
    IN  IF ~pool_state.exists THEN Verdict("blacklist", "Pool doesn't exist")
        ELSE IF ~pool_state.initialized
            THEN Verdict("blacklist", "Pool not initialized")
        ELSE IF pool_state.liquidity < THRESHOLDS.min_liquidity_base
            THEN Verdict("blacklist", "Liquidity too low")
        ELSE IF max_size = 0 THEN Verdict("blacklist", "All quotes failed")
        ELSE IF max_size >= THRESHOLDS.whitelist_min_size THEN
            IF impact = None \/ RatLe(impact, THRESHOLDS.impact_whitelist)
                THEN FormatImpact(impact, "whitelist", "Handles")
            ELSE IF RatLe(impact, THRESHOLDS.impact_marginal)
                THEN FormatImpact(impact, "marginal", "Works but high impact")
            ELSE FormatImpact(impact, "blacklist", "Unacceptable impact")
        ELSE IF max_size >= 10 /\ max_size <= 100 THEN
            IF impact = None \/ RatLe(impact, THRESHOLDS.impact_marginal)
                \* "... if impact else ...": None and 0.0 take the unformatted text
                THEN Verdict("marginal", "Small trade pool")
            ELSE FormatImpact(impact, "blacklist", "High impact at small size")
        ELSE IF max_size < 10
            THEN Verdict("blacklist", "Insufficient depth")
        ELSE Verdict("blacklist", "Unknown")

\* The scan that keeps going down after a hit: the smallest passing size above
\* $1 is the one that stays.
RECURSIVE ScanSmallest(_, _, _, _)
ScanSmallest(r, quotes, baseline, i) ==
    IF i = 0 THEN r
    ELSE IF quotes[i].pass /\ quotes[i].size_usd > 1
         THEN ScanSmallest(
                  [r EXCEPT !.impact_pct =
                                RatMul(RatAbs(RatSub(RatInt(1),
                                    RatDiv(Rate(quotes[i].raw_out, quotes[i].size_usd),
                                           baseline))), RatInt(100)),
                            !.impact_size = quotes[i].size_usd],
                  quotes, baseline, i - 1)
         ELSE ScanSmallest(r, quotes, baseline, i - 1)

\* verify_whitelist.run_quote_matrix, "Compute price impact: largest successful
\* size vs $1": the reversed scan over result["quotes"], from index i down.
RECURSIVE ScanLargest(_, _, _, _)
ScanLargest(r, quotes, baseline, i) ==
    IF i = 0 THEN r
    ELSE IF quotes[i].pass /\ quotes[i].size_usd > 1
         THEN [r EXCEPT !.impact_pct =
                             RatMul(RatAbs(RatSub(RatInt(1),
                                 RatDiv(Rate(quotes[i].raw_out, quotes[i].size_usd),
                                        baseline))), RatInt(100)),
                        !.impact_size = quotes[i].size_usd]
         ELSE ScanLargest(r, quotes, baseline, i - 1)

LargestImpact(r, baseline) ==
    IF baseline # None /\ RatLt(RatInt(0), baseline)
    THEN ScanLargest(r, r.quotes, baseline, Len(r.quotes))
    ELSE r

\* The result dict as run_quote_matrix / assess_pool first builds it.
NewResult(address, pool_state) ==
    [ address |-> address, pool_state |-> pool_state, quotes |-> <<>>,
      max_working_size |-> 0, impact_at_max |-> None, liquidity_score |-> 0,
      category_suggestion |-> "blacklist", category_reason |-> "" ]

\* verify_whitelist.run_quote_matrix's result dict (impact_size 0: the key is
\* not set yet).
NewWlResult(address) ==
    [ address |-> address, quotes |-> <<>>, impact_pct |-> None, impact_size |-> 0 ]

\* What main keeps of a result in its list: the fields it reads after the loop.
Kept(r) ==
    IF script = "whitelist"
    THEN [address |-> r.address, impact_size |-> r.impact_size]
    ELSE [address |-> r.address, category_suggestion |-> r.category_suggestion,
          category_reason |-> r.category_reason]

ProfInit ==
    /\ script \in {"enhanced", "quickswap", "whitelist"}
    /\ pc = "main"
    /\ pool_idx = 0
    /\ size_idx = 1
    /\ baseline_rate = None
    /\ result = None
    /\ matrix_results = <<>>
    /\ listed = <<>>
    /\ exit_code = None

\* main's loop picks the next pool and run_quote_matrix / assess_pool runs up
\* to its quote loop; a pool without bytecode or price returns at once.
StartPool ==
    /\ pc = "main"
    /\ pool_idx < NumPools
    /\ script \in {"enhanced", "quickswap"}
    /\ \E ps \in PoolStates :
         LET r == NewResult(pool_idx + 1, ps)
         IN  IF ~ps.exists \/ ~ps.initialized
             THEN LET ret == [r EXCEPT !.category_reason =
                                  "Pool doesn't exist or not initialized"]
                  IN  /\ result' = ret
                      /\ matrix_results' = Append(matrix_results, Kept(ret))
                      /\ pool_idx' = pool_idx + 1
                      /\ pc' = "main"
             ELSE /\ result' = r
                  /\ pc' = "quote"
                  /\ UNCHANGED <<matrix_results, pool_idx>>
    /\ size_idx' = 1
    /\ baseline_rate' = None
    /\ UNCHANGED script
    /\ UNCHANGED <<listed, exit_code>>
    /\ UNCHANGED <<dedupVars, v2Vars, depthVars, wlVars, blVars, reportVars>>

\* verify_whitelist.run_all_quote_matrices picks the next pool.
StartWlPool ==
    /\ pc = "main"
    /\ pool_idx < NumPools
    /\ script = "whitelist"
    /\ result' = NewWlResult(pool_idx + 1)
    /\ pc' = "quote"
    /\ size_idx' = 1
    /\ baseline_rate' = None
    /\ UNCHANGED <<script, matrix_results, pool_idx>>
    /\ UNCHANGED <<listed, exit_code>>
    /\ UNCHANGED <<dedupVars, v2Vars, depthVars, wlVars, blVars, reportVars>>

\* The loop left at the first size that fails.
QuoteStepStopOnFailure ==
    /\ pc = "quote"
    /\ LET size_usd == QUOTE_SIZES_USD[size_idx]
       IN  \E raw_out \in QuoteOutcomes(size_usd) :
             LET passed     == raw_out > 0
                 impact_pct == ImpactPct(baseline_rate, raw_out, size_usd)
             IN  /\ IF script = "whitelist"
                    THEN result' = [result EXCEPT !.quotes = Append(@,
                             [size_usd |-> size_usd, raw_out |-> raw_out,
                              pass |-> passed])]
                    ELSE result' = TrackMax(
                             [result EXCEPT !.quotes = Append(@,
                                 [size_usd |-> size_usd, raw_out |-> raw_out,
                                  pass |-> passed, impact_pct |-> impact_pct])],
                             size_usd, passed, impact_pct)
                 /\ baseline_rate' = TrackBaseline(baseline_rate, size_usd, raw_out)
                 /\ pc' = IF size_idx < Len(QUOTE_SIZES_USD) /\ passed THEN "quote"
                          ELSE IF script = "whitelist" THEN "impact" ELSE "categorize"
    /\ size_idx' = size_idx + 1
    /\ UNCHANGED <<script, pool_idx, matrix_results>>
    /\ UNCHANGED <<listed, exit_code>>
    /\ UNCHANGED <<dedupVars, v2Vars, depthVars, wlVars, blVars, reportVars>>

\* One iteration of "for size_usd in QUOTE_SIZES_USD".
QuoteStep ==
    /\ pc = "quote"
    /\ LET size_usd == QUOTE_SIZES_USD[size_idx]
       IN  \E raw_out \in QuoteOutcomes(size_usd) :
             LET passed     == raw_out > 0
                 impact_pct == ImpactPct(baseline_rate, raw_out, size_usd)
             IN  /\ IF script = "whitelist"
                    THEN result' = [result EXCEPT !.quotes = Append(@,
                             [size_usd |-> size_usd, raw_out |-> raw_out,
                              pass |-> passed])]
                    ELSE result' = TrackMax(
                             [result EXCEPT !.quotes = Append(@,
                                 [size_usd |-> size_usd, raw_out |-> raw_out,
                                  pass |-> passed, impact_pct |-> impact_pct])],
                             size_usd, passed, impact_pct)
                 /\ baseline_rate' = TrackBaseline(baseline_rate, size_usd, raw_out)
    /\ size_idx' = size_idx + 1
    /\ pc' = IF size_idx < Len(QUOTE_SIZES_USD) THEN "quote"
             ELSE IF script = "whitelist" THEN "impact" ELSE "categorize"
    /\ UNCHANGED <<script, pool_idx, matrix_results>>
    /\ UNCHANGED <<listed, exit_code>>
    /\ UNCHANGED <<dedupVars, v2Vars, depthVars, wlVars, blVars, reportVars>>

\* After the loop: calculate_liquidity_score, categorize_pool, return, and
\* main's append.  An exception raised by categorize_pool is caught nowhere
\* and ends the run.
Categorize ==
    /\ pc = "categorize"
    /\ LET score  == IF script = "enhanced"
                     THEN calculate_liquidity_score(result.max_working_size,
                                                    result.impact_at_max)
                     ELSE qs_calculate_liquidity_score(result.max_working_size,
                                                       result.impact_at_max)
           scored == [result EXCEPT !.liquidity_score = score]
           v      == IF script = "enhanced" THEN categorize_pool(scored)
                     ELSE qs_categorize_pool(scored)
           ret    == [scored EXCEPT !.category_suggestion = v.category,
                                    !.category_reason = v.reason]
       IN  IF v.raised
           THEN /\ result' = scored
                /\ pc' = "crashed"
                /\ UNCHANGED <<matrix_results, pool_idx>>
           ELSE /\ result' = ret
                /\ matrix_results' = Append(matrix_results, Kept(ret))
                /\ pool_idx' = pool_idx + 1
                /\ pc' = "main"
    /\ UNCHANGED <<script, size_idx, baseline_rate>>
    /\ UNCHANGED <<listed, exit_code>>
    /\ UNCHANGED <<dedupVars, v2Vars, depthVars, wlVars, blVars, reportVars>>

\* verify_whitelist.run_quote_matrix after the loop, and the caller's append.
ComputeImpact ==
    /\ pc = "impact"
    /\ LET ret == LargestImpact(result, baseline_rate)
       IN  /\ result' = ret
           /\ matrix_results' = Append(matrix_results, Kept(ret))
    /\ pool_idx' = pool_idx + 1
    /\ pc' = "main"
    /\ UNCHANGED <<script, size_idx, baseline_rate>>
    /\ UNCHANGED <<listed, exit_code>>
    /\ UNCHANGED <<dedupVars, v2Vars, depthVars, wlVars, blVars, reportVars>>

\* The sections of pools_whitelist.json, in the order main collects them.
Lists == <<"whitelist", "blacklist", "marginal", "observation">>

\* all_pools: the pools of the four sections one after the other, so that
\* the n-th pool's section is not before the (n-1)-th's.
ListAssignments ==
    { l \in [1..NumPools -> 1..Len(Lists)] :
        \A n \in 1..(NumPools - 1) : l[n] <= l[n + 1] }

\* main: "Exit code based on mismatches"
Mismatches(results, lists) ==
    Cardinality({ n \in 1..Len(results) :
                    /\ results[n].category_suggestion = "blacklist"
                    /\ Lists[lists[results[n].address]] = "whitelist" })

ExitCode(results, lists) == IF Mismatches(results, lists) > 0 THEN 1 ELSE 0

\* Every pool has been assessed: main prints and exits.  The section a pool
\* was listed in is read here for the first time.  verify_quickswap_pools
\* returns from main; verify_whitelist's exit code comes from its pool
\* checks, which are no part of the quote matrix.
Finish ==
    /\ pc = "main"
    /\ pool_idx = NumPools
    /\ pc' = "done"
    /\ \E lists \in ListAssignments :
         /\ listed' = [ n \in 1..NumPools |-> Lists[lists[n]] ]
         /\ exit_code' = IF script = "enhanced" THEN ExitCode(matrix_results, lists)
                         ELSE IF script = "quickswap" THEN 0
                         ELSE None
    /\ UNCHANGED <<script, pool_idx, size_idx, baseline_rate, result, matrix_results>>
    /\ UNCHANGED <<dedupVars, v2Vars, depthVars, wlVars, blVars, reportVars>>

ProfNext ==
    \/ StartPool
    \/ StartWlPool
    \/ QuoteStep
    \/ Categorize
    \/ ComputeImpact
    \/ Finish

(***************************************************************************)
(* The de-duplicating aggregator (analyze_dedup_corrected.py) and the      *)
(* price-log analysis (analyze_price_log.py).  Both group the CSV rows by  *)
(* (pair, block) and walk every venue combination of a group.              *)
(***************************************************************************)
\* CSV rows read.
MaxRows == 3

\* The (pair, block) keys, the (dex, fee) venues (fee in ppm) and the prices
\* a row can carry.
Keys   == { <<"WETH/USDC", 1>>, <<"WETH/USDC", 2>> }
Venues == { <<"UniswapV3", 500>>, <<"SushiswapV3", 2500>>, <<"QuickswapV3", 2500>> }
Prices == { RatInt(0), RatInt(100), Rat(201, 2), RatInt(101) }

TRADE_SIZES == <<500, 1000, 2000, 5000, 8000, 10000, 15000>>

\* GAS_COST_USD = GAS_HIGH = 0.88
GAS_COST_USD == Rat(88, 100)

\* analyze_price_log: ESTIMATED_GAS_USD = 0.01
ESTIMATED_GAS_USD == Rat(1, 100)
\* analyze_price_log: TRADE_SIZE_USD = 140.0
TRADE_SIZE_USD == 140

RatMin(x, y) == IF RatLt(y, x) THEN y ELSE x

\* spread = abs(price_a - price_b) / min(price_a, price_b)
Spread(price_a, price_b) ==
    RatDiv(RatAbs(RatSub(price_a, price_b)), RatMin(price_a, price_b))

\* rt_fee = (fee_a + fee_b) / 1_000_000
RtFee(fee_a, fee_b) == Rat(fee_a + fee_b, 1000000)

\* The fixed cost left out.
NetProfitNoGas(price_a, price_b, fee_a, fee_b, size, gas) ==
    RatMul(RatSub(Spread(price_a, price_b), RtFee(fee_a, fee_b)), RatInt(size))

\* net = (spread - rt_fee) * size - gas
NetProfit(price_a, price_b, fee_a, fee_b, size, gas) ==
    RatSub(RatMul(RatSub(Spread(price_a, price_b), RtFee(fee_a, fee_b)), RatInt(size)),
           gas)

\* The labels the other way round.
DedupRouteSwapped(a, b, pair) ==
    IF RatLt(b.price, a.price)
    THEN [buy |-> <<b.dex, b.fee>>, sell |-> <<a.dex, a.fee>>, pair |-> pair]
    ELSE [buy |-> <<a.dex, a.fee>>, sell |-> <<b.dex, b.fee>>, pair |-> pair]

\* analyze_dedup: the buy and sell labels of a combination
DedupRoute(a, b, pair) ==
    IF RatLt(b.price, a.price)
    THEN [buy |-> <<a.dex, a.fee>>, sell |-> <<b.dex, b.fee>>, pair |-> pair]
    ELSE [buy |-> <<b.dex, b.fee>>, sell |-> <<a.dex, a.fee>>, pair |-> pair]

\* ">=" where the aggregator has ">": an equal net replaces the one kept.
BetterOrEqual(net, best) == best = None \/ RatLe(best.net, net)

\* Every profitable candidate replaces the one kept so far.
BetterAlways(net, best) == TRUE

\* analyze_dedup: "if best_net is None or net > best_net"
Better(net, best) == best = None \/ RatLt(best.net, net)

\* The loops without the "if net > 0" test: the best combination is kept
\* whatever its sign.
RECURSIVE BestRouteAnyNet(_, _, _, _, _, _)
BestRouteAnyNet(items, pair, size, i, j, best) ==
    IF i > Len(items) THEN best
    ELSE IF j > Len(items) THEN BestRouteAnyNet(items, pair, size, i + 1, i + 2, best)
    ELSE LET a == items[i]
             b == items[j]
         IN  IF RatLe(a.price, RatInt(0)) \/ RatLe(b.price, RatInt(0))
             THEN BestRouteAnyNet(items, pair, size, i, j + 1, best)
             ELSE LET net == NetProfit(a.price, b.price, a.fee, b.fee, size, GAS_COST_USD)
                  IN  IF Better(net, best)
                      THEN BestRouteAnyNet(items, pair, size, i, j + 1,
                                           [net |-> net, route |-> DedupRoute(a, b, pair)])
                      ELSE BestRouteAnyNet(items, pair, size, i, j + 1, best)

\* analyze_dedup: the loops over i and j for one (pair, block) and one size;
\* best is None or (best_net, best_route).
RECURSIVE BestRoute(_, _, _, _, _, _)
BestRoute(items, pair, size, i, j, best) ==
    IF i > Len(items) THEN best
    ELSE IF j > Len(items) THEN BestRoute(items, pair, size, i + 1, i + 2, best)
    ELSE LET a == items[i]
             b == items[j]
         IN  IF RatLe(a.price, RatInt(0)) \/ RatLe(b.price, RatInt(0))
             THEN BestRoute(items, pair, size, i, j + 1, best)
             ELSE LET net == NetProfit(a.price, b.price, a.fee, b.fee, size, GAS_COST_USD)
                  IN  IF RatLt(RatInt(0), net) /\ Better(net, best)
                      THEN BestRoute(items, pair, size, i, j + 1,
                                     [net |-> net, route |-> DedupRoute(a, b, pair)])
                      ELSE BestRoute(items, pair, size, i, j + 1, best)

\* analyze_dedup: best of one (pair, block), None when the group has fewer
\* than two venues or no combination nets more than 0.
BestOf(bp, bk, size) ==
    IF Len(bp[bk]) < 2 THEN None
    ELSE BestRoute(bp[bk], bk[1], size, 1, 2, None)

\* The aggregation given up when a (pair, block) has fewer than two venues.
PairBlockBestGivenUp(bp, size) ==
    LET kept == IF \E bk \in DOMAIN bp : Len(bp[bk]) < 2 THEN {}
                ELSE { bk \in DOMAIN bp : BestOf(bp, bk, size) # None }
    IN  [ bk \in kept |-> BestOf(bp, bk, size) ]

\* analyze_dedup: pair_block_best of one trade size
PairBlockBest(bp, size) ==
    LET kept == { bk \in DOMAIN bp : BestOf(bp, bk, size) # None }
    IN  [ bk \in kept |-> BestOf(bp, bk, size) ]

\* analyze_dedup: "Aggregate by pair", over the keys not yet added
RECURSIVE PairTotals(_, _, _)
PairTotals(pbb, todo, totals) ==
    IF todo = {} THEN totals
    ELSE LET bk   == CHOOSE k \in todo : TRUE
             pair == bk[1]
             old  == IF pair \in DOMAIN totals THEN totals[pair]
                     ELSE [count |-> 0, total_net |-> RatInt(0), max_net |-> RatInt(0)]
             new  == [count     |-> old.count + 1,
                      total_net |-> RatAdd(old.total_net, pbb[bk].net),
                      max_net   |-> RatMax(old.max_net, pbb[bk].net)]
         IN  PairTotals(pbb, todo \ {bk},
                        [p \in DOMAIN totals \cup {pair} |->
                            IF p = pair THEN new ELSE totals[p]])

RECURSIVE SumOver(_, _, _)
SumOver(totals, todo, field) ==
    IF todo = {} THEN RatInt(0)
    ELSE LET p == CHOOSE q \in todo : TRUE
         IN  RatAdd(IF field = "count" THEN RatInt(totals[p].count)
                    ELSE totals[p].total_net,
                    SumOver(totals, todo \ {p}, field))

\* analyze_dedup: the body of "for size in TRADE_SIZES"
SizeResult(bp, size) ==
    LET pbb    == PairBlockBest(bp, size)
        totals == PairTotals(pbb, DOMAIN pbb, <<>>)
    IN  [ pair_block_best |-> pbb,
          pair_totals     |-> totals,
          total_count     |-> SumOver(totals, DOMAIN totals, "count")[1],
          total_net       |-> SumOver(totals, DOMAIN totals, "total_net") ]

\* analyze_price_log: buy / sell of a combination ("Higher price = buy pool,
\* lower = sell pool")
PriceLogRoute(a, b) ==
    IF RatLt(b.price, a.price)
    THEN [buy_dex |-> a.dex, buy_fee |-> a.fee, buy_p |-> a.price,
          sell_dex |-> b.dex, sell_fee |-> b.fee, sell_p |-> b.price]
    ELSE [buy_dex |-> b.dex, buy_fee |-> b.fee, buy_p |-> b.price,
          sell_dex |-> a.dex, sell_fee |-> a.fee, sell_p |-> a.price]

\* analyze_price_log: the stats update of one combination
UpdateStats(stats, midmarket_spread, round_trip_fee, net_profit) ==
    [ spreads          |-> Append(stats.spreads, RatMul(midmarket_spread, RatInt(100))),
      total_count      |-> stats.total_count + 1,
      round_trip_fee   |-> RatMul(round_trip_fee, RatInt(100)),
      profitable_count |-> IF RatLt(RatInt(0), net_profit)
                           THEN stats.profitable_count + 1
                           ELSE stats.profitable_count,
      max_spread       |-> IF RatLt(stats.max_spread, midmarket_spread)
                           THEN RatMul(midmarket_spread, RatInt(100))
                           ELSE stats.max_spread,
      max_net          |-> IF RatLt(stats.max_net, net_profit) THEN net_profit
                           ELSE stats.max_net ]

\* analyze_price_log: the loops over i and j for one (pair, block)
RECURSIVE ComboStats(_, _, _, _, _)
ComboStats(items, pair, i, j, pc_stats) ==
    IF i > Len(items) THEN pc_stats
    ELSE IF j > Len(items) THEN ComboStats(items, pair, i + 1, i + 2, pc_stats)
    ELSE LET a == items[i]
             b == items[j]
         IN  IF RatLe(a.price, RatInt(0)) \/ RatLe(b.price, RatInt(0))
             THEN ComboStats(items, pair, i, j + 1, pc_stats)
             ELSE LET r   == PriceLogRoute(a, b)
                      midmarket_spread == RatDiv(RatSub(r.buy_p, r.sell_p), r.sell_p)
                      round_trip_fee   == Rat(r.buy_fee + r.sell_fee, 1000000)
                      net_spread       == RatSub(midmarket_spread, round_trip_fee)
                      net_profit       == RatSub(RatMul(net_spread, RatInt(TRADE_SIZE_USD)),
                                                 ESTIMATED_GAS_USD)
                      combo_key == <<pair, <<r.buy_dex, r.buy_fee>>,
                                           <<r.sell_dex, r.sell_fee>>>>
                      old == IF combo_key \in DOMAIN pc_stats THEN pc_stats[combo_key]
                             ELSE [spreads |-> <<>>, profitable_count |-> 0,
                                   total_count |-> 0, max_spread |-> RatInt(0),
                                   max_net |-> RatInt(0), round_trip_fee |-> RatInt(0)]
                      new == UpdateStats(old, midmarket_spread, round_trip_fee, net_profit)
                  IN  ComboStats(items, pair, i, j + 1,
                          [k \in DOMAIN pc_stats \cup {combo_key} |->
                              IF k = combo_key THEN new ELSE pc_stats[k]])

\* analyze_price_log: the loop over block_prices, keys in insertion order
RECURSIVE PairCombos(_, _, _, _)
PairCombos(bp, order, n, pc_stats) ==
    IF n > Len(order) THEN pc_stats
    ELSE IF Len(bp[order[n]]) < 2 THEN PairCombos(bp, order, n + 1, pc_stats)
    ELSE PairCombos(bp, order, n + 1,
                    ComboStats(bp[order[n]], order[n][1], 1, 2, pc_stats))

\* The keys of block_prices in insertion order.
RECURSIVE KeyOrder(_, _)
KeyOrder(bp, todo) ==
    IF todo = {} THEN <<>>
    ELSE LET first == CHOOSE k \in todo : \A o \in todo : bp[k][1].seq <= bp[o][1].seq
         IN  <<first>> \o KeyOrder(bp, todo \ {first})

\* "block_prices[bk][dk] = r['price']": a new venue is added at the end of
\* the group's dict, a venue seen before keeps its place and takes the price.
PutPrice(items, dex, fee, price, seq) ==
    IF \E n \in 1..Len(items) : items[n].dex = dex /\ items[n].fee = fee
    THEN [ n \in 1..Len(items) |->
             IF items[n].dex = dex /\ items[n].fee = fee
             THEN [items[n] EXCEPT !.price = price] ELSE items[n] ]
    ELSE Append(items, [dex |-> dex, fee |-> fee, price |-> price, seq |-> seq])

DedupInit ==
    /\ dd_pc = "load"
    /\ n_rows = 0
    /\ block_prices = <<>>
    /\ size_results = <<>>
    /\ pair_combos = <<>>

\* One CSV row is read and grouped.
LoadRow ==
    /\ dd_pc = "load"
    /\ n_rows < MaxRows
    /\ \E bk \in Keys, v \in Venues, price \in Prices :
         LET old == IF bk \in DOMAIN block_prices THEN block_prices[bk] ELSE <<>>
         IN  block_prices' =
                 [ k \in DOMAIN block_prices \cup {bk} |->
                     IF k = bk THEN PutPrice(old, v[1], v[2], price, n_rows + 1)
                     ELSE block_prices[k] ]
    /\ n_rows' = n_rows + 1
    /\ UNCHANGED <<dd_pc, size_results, pair_combos>>
    /\ UNCHANGED <<profVars, v2Vars, depthVars, wlVars, blVars, reportVars>>

\* Every trade size is analysed, the results stored under the sizes in
\* reverse.
AnalyzeDedupWrongSize ==
    /\ dd_pc = "load"
    /\ size_results' = [ n \in 1..Len(TRADE_SIZES) |->
                           SizeResult(block_prices,
                                      TRADE_SIZES[Len(TRADE_SIZES) + 1 - n]) ]
    /\ dd_pc' = "dedup_done"
    /\ UNCHANGED <<n_rows, block_prices, pair_combos>>
    /\ UNCHANGED <<profVars, v2Vars, depthVars, wlVars, blVars, reportVars>>

\* analyze_dedup(rows, hours): every trade size is analysed.
AnalyzeDedup ==
    /\ dd_pc = "load"
    /\ size_results' = [ n \in 1..Len(TRADE_SIZES) |->
                           SizeResult(block_prices, TRADE_SIZES[n]) ]
    /\ dd_pc' = "dedup_done"
    /\ UNCHANGED <<n_rows, block_prices, pair_combos>>
    /\ UNCHANGED <<profVars, v2Vars, depthVars, wlVars, blVars, reportVars>>

\* analyze_price_log.analyze(rows): the cross-DEX spread analysis (rows[0]
\* is read first, so there is at least one row).
AnalyzePriceLog ==
    /\ dd_pc = "load"
    /\ n_rows > 0
    /\ pair_combos' = PairCombos(block_prices,
                                 KeyOrder(block_prices, DOMAIN block_prices), 1, <<>>)
    /\ dd_pc' = "price_log_done"
    /\ UNCHANGED <<n_rows, block_prices, size_results>>
    /\ UNCHANGED <<profVars, v2Vars, depthVars, wlVars, blVars, reportVars>>

DedupNext ==
    \/ LoadRow
    \/ AnalyzeDedup
    \/ AnalyzePriceLog

\* The price-log analysis on its own, over longer logs of two venues: rows
\* read, and the venues and prices a row can carry.
MaxLogRows == 4
LogVenues == { <<"UniswapV3", 500>>, <<"SushiswapV3", 3000>> }
LogPrices == { RatInt(100), RatInt(101), RatInt(102) }

\* One CSV row of the price log is read and grouped.
LoadLogRow ==
    /\ dd_pc = "load"
    /\ n_rows < MaxLogRows
    /\ \E bk \in Keys, v \in LogVenues, price \in LogPrices :
         LET old == IF bk \in DOMAIN block_prices THEN block_prices[bk] ELSE <<>>
         IN  block_prices' =
                 [ k \in DOMAIN block_prices \cup {bk} |->
                     IF k = bk THEN PutPrice(old, v[1], v[2], price, n_rows + 1)
                     ELSE block_prices[k] ]
    /\ n_rows' = n_rows + 1
    /\ UNCHANGED <<dd_pc, size_results, pair_combos>>
    /\ UNCHANGED <<profVars, v2Vars, depthVars, wlVars, blVars, reportVars>>

PriceLogNext ==
    \/ LoadLogRow
    \/ AnalyzePriceLog

(***************************************************************************)
(* The constant-product quote.  Amounts and reserves are raw integer units *)
(* of the two tokens.                                                      *)
(***************************************************************************)
MaxReserve == 8
MaxAmount  == 5
MaxProbes  == 3

\* The guard without its reserve_in test.
v2_get_amount_out_unguarded(amount_in, reserve_in, reserve_out) ==
    IF reserve_out = 0 \/ amount_in = 0 THEN 0
    ELSE LET amount_in_with_fee == amount_in * 997
             numerator          == amount_in_with_fee * reserve_out
             denominator        == reserve_in * 1000 + amount_in_with_fee
         IN  IF denominator = 0 THEN 0 ELSE numerator \div denominator

\* The fee-adjusted input subtracted from the reserve instead of added.
v2_get_amount_out_minus(amount_in, reserve_in, reserve_out) ==
    IF reserve_in = 0 \/ reserve_out = 0 \/ amount_in = 0 THEN 0
    ELSE LET amount_in_with_fee == amount_in * 997
             numerator          == amount_in_with_fee * reserve_out
             denominator        == reserve_in * 1000 - amount_in_with_fee
         IN  IF denominator <= 0 THEN 0 ELSE numerator \div denominator

\* The quotient rounded up instead of down.
v2_get_amount_out_round_up(amount_in, reserve_in, reserve_out) ==
    IF reserve_in = 0 \/ reserve_out = 0 \/ amount_in = 0 THEN 0
    ELSE LET amount_in_with_fee == amount_in * 997
             numerator          == amount_in_with_fee * reserve_out
             denominator        == reserve_in * 1000 + amount_in_with_fee
         IN  IF denominator = 0 THEN 0
             ELSE (numerator + denominator - 1) \div denominator

\* verify_v2_pools.v2_get_amount_out
v2_get_amount_out(amount_in, reserve_in, reserve_out) ==
    IF reserve_in = 0 \/ reserve_out = 0 \/ amount_in = 0 THEN 0
    ELSE LET amount_in_with_fee == amount_in * 997
             numerator          == amount_in_with_fee * reserve_out
             denominator        == reserve_in * 1000 + amount_in_with_fee
         IN  IF denominator = 0 THEN 0 ELSE numerator \div denominator

\* depth_assessment.calc_v2_amount_out
calc_v2_amount_out(amount_in, reserve_in, reserve_out) ==
    LET amount_in_with_fee == amount_in * 997
        numerator          == amount_in_with_fee * reserve_out
        denominator        == reserve_in * 1000 + amount_in_with_fee
    IN  numerator \div denominator

\* The reserves a pool can report.
V2Init ==
    /\ v2_impl \in {"verify_v2_pools", "depth_assessment"}
    /\ v2_reserve_in \in 0..MaxReserve
    /\ v2_reserve_out \in 0..MaxReserve
    /\ v2_quotes = <<>>
    /\ v2_reason = ""

\* The reserves let the quote loop run: verify_v2_pools returns early on
\* "Zero reserves" (both zero), depth_assessment.query_v2_reserves returns
\* None when either reserve is zero.
V2ReservesUsable ==
    IF v2_impl = "verify_v2_pools"
    THEN ~(v2_reserve_in = 0 /\ v2_reserve_out = 0)
    ELSE v2_reserve_in # 0 /\ v2_reserve_out # 0

\* One iteration of the size loop: the next, larger, amount is quoted.
V2Quote ==
    /\ v2_impl # "none"
    /\ V2ReservesUsable
    /\ v2_reason = ""
    /\ Len(v2_quotes) < MaxProbes
    /\ \E amount_in \in 0..MaxAmount :
         /\ Len(v2_quotes) > 0 => amount_in > v2_quotes[Len(v2_quotes)].amount_in
         /\ LET amount_out ==
                    IF v2_impl = "verify_v2_pools"
                    THEN v2_get_amount_out(amount_in, v2_reserve_in, v2_reserve_out)
                    ELSE calc_v2_amount_out(amount_in, v2_reserve_in, v2_reserve_out)
            IN  v2_quotes' = Append(v2_quotes,
                    [amount_in |-> amount_in, amount_out |-> amount_out,
                     pass |-> amount_out > 0])
    /\ UNCHANGED <<v2_impl, v2_reserve_in, v2_reserve_out, v2_reason>>
    /\ UNCHANGED <<profVars, dedupVars, depthVars, wlVars, blVars, reportVars>>

\* The pool is given up before the size loop: verify_v2_pools returns with
\* reason "Zero reserves", depth_assessment.assess_v2_pool returns
\* make_fail_result(pool, "no_reserves").
V2NoReserves ==
    /\ v2_impl # "none"
    /\ ~V2ReservesUsable
    /\ v2_reason = ""
    /\ v2_reason' = IF v2_impl = "verify_v2_pools" THEN "Zero reserves"
                    ELSE "no_reserves"
    /\ UNCHANGED <<v2_impl, v2_reserve_in, v2_reserve_out, v2_quotes>>
    /\ UNCHANGED <<profVars, dedupVars, depthVars, wlVars, blVars, reportVars>>

V2Next ==
    \/ V2Quote
    \/ V2NoReserves

(***************************************************************************)
(* depth_assessment: the three quotes of assess_v3_pool, then              *)
(* build_assessment.                                                       *)
(***************************************************************************)
TRADE_SIZES_USD == <<100, 500, 5000>>

IMPACT_THRESHOLD == Rat(2, 100)

\* None where an integer amount is expected.
NoQuote == -1

\* What a quoter call can leave in results[usd_size]: None (revert, transport
\* error or zero output), or 10 raw units per dollar at $100 and, at a larger
\* size, that rate degraded by -3 %, 0 %, 1 %, 2 %, 3 % or 20 %.
DaOutcomes(usd_size) ==
    IF usd_size = 100 THEN {NoQuote, 1000}
    ELSE {NoQuote} \cup { (usd_size \div 10) * (100 - d) : d \in {-3, 0, 1, 2, 3, 20} }

\* results.get(size)
DaGet(results, size) ==
    IF size = 100 THEN results[1] ELSE IF size = 500 THEN results[2] ELSE results[3]

\* impact = 1.0 - (amt / expected), expected = size * fair_price_per_dollar
SignedImpact(amt, size, fair_price_per_dollar) ==
    RatSub(RatInt(1), RatDiv(RatInt(amt), RatMul(RatInt(size), fair_price_per_dollar)))

Missing(amt) == amt = NoQuote \/ amt = 0

\* build_assessment without the fallback to $500 when the $5000 quote
\* succeeded with too much impact.
build_assessment_no_fallback(results) ==
    LET amt_100  == DaGet(results, 100)
        amt_500  == DaGet(results, 500)
        amt_5000 == DaGet(results, 5000)
        base == [ out_100 |-> amt_100, out_500 |-> amt_500, out_5000 |-> amt_5000,
                  impact_500 |-> None, impact_5000 |-> None,
                  max_trade_usd |-> 0, verdict |-> "DEAD" ]
    IN  IF Missing(amt_100) THEN base
        ELSE
        LET fair_price_per_dollar == Rat(amt_100, 100)
            ImpactAt(size) == IF Missing(DaGet(results, size)) THEN None
                              ELSE SignedImpact(DaGet(results, size), size,
                                                fair_price_per_dollar)
            Below(size) == RatLt(SignedImpact(DaGet(results, size), size,
                                              fair_price_per_dollar),
                                 IMPACT_THRESHOLD)
            max_trade_usd ==
                IF ~Missing(amt_5000) THEN (IF Below(5000) THEN 5000 ELSE 100)
                ELSE IF ~Missing(amt_500) THEN (IF Below(500) THEN 500 ELSE 100)
                ELSE 100
            verdict == IF max_trade_usd >= 500 THEN "ADD"
                       ELSE IF ~Missing(amt_100) THEN "THIN"
                       ELSE "DEAD"
        IN  [ base EXCEPT !.impact_500 = ImpactAt(500), !.impact_5000 = ImpactAt(5000),
                          !.max_trade_usd = max_trade_usd, !.verdict = verdict ]

\* depth_assessment.build_assessment
build_assessment(results) ==
    LET amt_100  == DaGet(results, 100)
        amt_500  == DaGet(results, 500)
        amt_5000 == DaGet(results, 5000)
        base == [ out_100 |-> amt_100, out_500 |-> amt_500, out_5000 |-> amt_5000,
                  impact_500 |-> None, impact_5000 |-> None,
                  max_trade_usd |-> 0, verdict |-> "DEAD" ]
    IN  IF Missing(amt_100) THEN base
        ELSE
        LET fair_price_per_dollar == Rat(amt_100, 100)
            ImpactAt(size) == IF Missing(DaGet(results, size)) THEN None
                              ELSE SignedImpact(DaGet(results, size), size,
                                                fair_price_per_dollar)
            Below(size) == RatLt(SignedImpact(DaGet(results, size), size,
                                              fair_price_per_dollar),
                                 IMPACT_THRESHOLD)
            max_trade_usd ==
                IF ~Missing(amt_5000) THEN
                    IF Below(5000) THEN 5000
                    ELSE IF ~Missing(amt_500) THEN (IF Below(500) THEN 500 ELSE 100)
                    ELSE 100
                ELSE IF ~Missing(amt_500) THEN (IF Below(500) THEN 500 ELSE 100)
                ELSE 100
            verdict == IF max_trade_usd >= 500 THEN "ADD"
                       ELSE IF ~Missing(amt_100) THEN "THIN"
                       ELSE "DEAD"
        IN  [ base EXCEPT !.impact_500 = ImpactAt(500), !.impact_5000 = ImpactAt(5000),
                          !.max_trade_usd = max_trade_usd, !.verdict = verdict ]

\* depth_assessment.make_fail_result
make_fail_result(reason) ==
    [ out_100 |-> NoQuote, out_500 |-> NoQuote, out_5000 |-> NoQuote,
      impact_500 |-> None, impact_5000 |-> None,
      max_trade_usd |-> 0, verdict |-> "DEAD" ]

\* What a row of the pool scan can be: base and quote symbols with known
\* addresses and a venue with a quoter; a symbol without an address; a venue
\* without a quoter.
PoolKinds == {"ok", "unknown_token", "no_quoter"}

\* What main keeps of an assessment in its list.
DaKept(pool, a) ==
    [pool |-> pool, verdict |-> a.verdict, max_trade_usd |-> a.max_trade_usd]

\* main reaches its loop with the first pool.
DepthInit ==
    /\ da_pc = "quote"
    /\ da_pool \in PoolKinds
    /\ da_results = <<>>
    /\ assessment = None
    /\ assessments = <<>>

\* assess_v3_pool returns make_fail_result for a token without an address or
\* a venue without a quoter, before any quote; main appends it.
DaFail ==
    /\ da_pc = "quote"
    /\ da_pool # "ok"
    /\ assessment' = make_fail_result(da_pool)
    /\ assessments' = Append(assessments, DaKept(da_pool, make_fail_result(da_pool)))
    /\ da_pc' = "built"
    /\ UNCHANGED <<da_pool, da_results>>
    /\ UNCHANGED <<profVars, dedupVars, v2Vars, wlVars, blVars, reportVars>>

\* main's loop goes on to the next pool.
DaNextPool ==
    /\ da_pc = "built"
    /\ Len(assessments) < NumPools
    /\ da_pool' \in PoolKinds
    /\ da_results' = <<>>
    /\ da_pc' = "quote"
    /\ UNCHANGED <<assessment, assessments>>
    /\ UNCHANGED <<profVars, dedupVars, v2Vars, wlVars, blVars, reportVars>>

\* One iteration of assess_v3_pool's loop over TRADE_SIZES_USD.
DaQuote ==
    /\ da_pc = "quote"
    /\ da_pool = "ok"
    /\ Len(da_results) < Len(TRADE_SIZES_USD)
    /\ \E amount_out \in DaOutcomes(TRADE_SIZES_USD[Len(da_results) + 1]) :
         da_results' = Append(da_results, amount_out)
    /\ UNCHANGED <<da_pc, da_pool, assessment, assessments>>
    /\ UNCHANGED <<profVars, dedupVars, v2Vars, wlVars, blVars, reportVars>>

\* return build_assessment(pool, results), and main's append
DaBuild ==
    /\ da_pc = "quote"
    /\ Len(da_results) = Len(TRADE_SIZES_USD)
    /\ assessment' = build_assessment(da_results)
    /\ assessments' = Append(assessments, DaKept(da_pool, build_assessment(da_results)))
    /\ da_pc' = "built"
    /\ UNCHANGED <<da_pool, da_results>>
    /\ UNCHANGED <<profVars, dedupVars, v2Vars, wlVars, blVars, reportVars>>

DepthNext ==
    \/ DaQuote
    \/ DaBuild
    \/ DaFail
    \/ DaNextPool

(***************************************************************************)
(* verify_whitelist.py: the five pool checks, the blacklist check and      *)
(* main's exit code.                                                       *)
(***************************************************************************)
\* Pools in the whitelist section, and in each of the blacklist and
\* observation sections, at most.
MaxWhitelisted == 2
MaxOther == 1

\* eth_call's "" (transport error, JSON-RPC error or revert), as a number.
CallFailed == -1

CheckNames == <<"exists", "slot0", "liquidity", "fee", "quote">>

\* The fee_tier and min_liquidity of the pool entries.
EntryFeeTier == 500
EntryMinLiquidity == 1000000000

\* What the chain can answer for one pool: eth_getCode; sqrtPriceX96 of
\* slot0(); liquidity(); fee(); the $1 quote.  known: the entry's pair parses
\* and its tokens are in TOKEN_ADDRESSES.
Observations ==
    [ code      : {"", "0x", "0x60"},
      slot0     : {CallFailed, 0, 1},
      liquidity : {CallFailed, EntryMinLiquidity - 1, EntryMinLiquidity},
      fee       : {CallFailed, EntryFeeTier, 3000},
      known     : BOOLEAN,
      quote     : {CallFailed, 0, 1000} ]

check_exists(code) == [pass |-> ~(code \in {"", "0x", "0x0"})]

check_slot0(resp) == [pass |-> resp # CallFailed /\ resp # 0]

check_liquidity(resp, min_liquidity) ==
    [pass |-> resp # CallFailed /\ ~(resp < min_liquidity)]

check_fee(resp, expected_fee) == [pass |-> resp # CallFailed /\ resp = expected_fee]

check_quote(known, resp) == [pass |-> known /\ resp # CallFailed /\ resp # 0]

\* _quote_raw
vw_quote_raw(known, resp) == IF ~known \/ resp = CallFailed THEN 0 ELSE resp

Skipped == [pass |-> FALSE]

\* overall taken from the exists check alone.
verify_pool_exists_only(o) ==
    LET exists == check_exists(o.code)
        checks == [ exists    |-> exists,
                    slot0     |-> check_slot0(o.slot0),
                    liquidity |-> check_liquidity(o.liquidity, EntryMinLiquidity),
                    fee       |-> check_fee(o.fee, EntryFeeTier),
                    quote     |-> check_quote(o.known, o.quote) ]
    IN  [ checks |-> checks, overall |-> exists.pass,
          executed |-> {"exists", "slot0", "liquidity", "fee", "quote"} ]

\* verify_pool; executed is the set of checks that were called.
verify_pool(o) ==
    LET exists == check_exists(o.code)
        checks == [ exists    |-> exists,
                    slot0     |-> check_slot0(o.slot0),
                    liquidity |-> check_liquidity(o.liquidity, EntryMinLiquidity),
                    fee       |-> check_fee(o.fee, EntryFeeTier),
                    quote     |-> check_quote(o.known, o.quote) ]
    IN  IF ~exists.pass
        THEN [ checks   |-> [ exists |-> exists, slot0 |-> Skipped, liquidity |-> Skipped,
                              fee |-> Skipped, quote |-> Skipped ],
               overall  |-> FALSE,
               executed |-> {"exists"} ]
        ELSE [ checks   |-> checks,
               overall  |-> \A n \in 1..Len(CheckNames) : checks[CheckNames[n]].pass,
               executed |-> {"exists", "slot0", "liquidity", "fee", "quote"} ]

\* What the quoter answers for the $1 and the $140 quote: a failed call, a
\* zero quote, 1000 raw units per dollar at $1 and at $140 that rate
\* degraded by -7 % (a better rate), 0 %, 4 % or 8 %.
BlQuoteOutcomes(size_usd) ==
    IF size_usd = 1 THEN {CallFailed, 0, 1000}
    ELSE {CallFailed, 0} \cup { size_usd * 10 * (100 - d) : d \in {-7, 0, 4, 8} }

\* The size quoted by the n-th call of check_blacklist_pool.
BlSizes == <<1, 140, 1, 140>>

\* impact_pct of check_blacklist_pool
BlImpactPct(small_raw, trade_raw) ==
    LET small_rate == Rate(small_raw, 1)
        trade_rate == Rate(trade_raw, 140)
    IN  IF RatLt(RatInt(0), small_rate)
        THEN RatMul(RatAbs(RatSub(RatInt(1), RatDiv(trade_rate, small_rate))), RatInt(100))
        ELSE RatInt(0)

\* check_blacklist_pool returns after the two check_quote calls.
BlReturnsEarly(known, calls) ==
    ~check_quote(known, calls[2]).pass

\* check_blacklist_pool, from the responses of its calls (two when it
\* returns early, four otherwise).
check_blacklist_pool(known, calls) ==
    LET small_result == check_quote(known, calls[1])
        trade_result == check_quote(known, calls[2])
    IN  IF ~small_result.pass /\ ~trade_result.pass THEN [still_dead |-> TRUE]
        ELSE IF ~trade_result.pass THEN [still_dead |-> TRUE]
        ELSE LET small_raw == vw_quote_raw(known, calls[3])
                 trade_raw == vw_quote_raw(known, calls[4])
             IN  IF small_raw > 0 /\ trade_raw > 0
                 THEN IF RatLt(RatInt(5), BlImpactPct(small_raw, trade_raw))
                      THEN [still_dead |-> TRUE]
                      ELSE [still_dead |-> FALSE]
                 ELSE [still_dead |-> FALSE]

\* The fields of a verify_pool result main reads afterwards.
WlKept(r) == [checks |-> r.checks, overall |-> r.overall]

\* print_summary's return value
print_summary(wl_results) ==
    Cardinality({ n \in 1..Len(wl_results) : ~wl_results[n].overall })

WlInit ==
    /\ vw_pc = "whitelist"
    /\ vw_result = None
    /\ whitelist_results = <<>>
    /\ blacklist_results = <<>>
    /\ observation_results = <<>>
    /\ vw_exit_code = None

\* verify_all_pools: one whitelisted pool is verified.
VerifyWhitelisted ==
    /\ vw_pc = "whitelist"
    /\ Len(whitelist_results) < MaxWhitelisted
    /\ \E o \in Observations :
         /\ vw_result' = verify_pool(o)
         /\ whitelist_results' = Append(whitelist_results, WlKept(verify_pool(o)))
    /\ UNCHANGED <<vw_pc, blacklist_results, observation_results, vw_exit_code>>
    /\ UNCHANGED <<profVars, dedupVars, v2Vars, depthVars, blVars, reportVars>>

\* The whitelist section is exhausted.
WhitelistDone ==
    /\ vw_pc = "whitelist"
    /\ vw_pc' = "blacklist"
    /\ UNCHANGED <<vw_result, whitelist_results, blacklist_results, observation_results,
                   vw_exit_code>>
    /\ UNCHANGED <<profVars, dedupVars, v2Vars, depthVars, blVars, reportVars>>

\* main: one blacklisted pool is checked.
CheckBlacklisted ==
    /\ vw_pc = "blacklist"
    /\ Len(blacklist_results) < MaxOther
    /\ \E known \in BOOLEAN :
       \E calls \in [1..4 -> BlQuoteOutcomes(1) \cup BlQuoteOutcomes(140)] :
         /\ \A n \in 1..4 : calls[n] \in BlQuoteOutcomes(BlSizes[n])
         /\ blacklist_results' = Append(blacklist_results, check_blacklist_pool(known, calls))
    /\ UNCHANGED <<vw_pc, vw_result, whitelist_results, observation_results, vw_exit_code>>
    /\ UNCHANGED <<profVars, dedupVars, v2Vars, depthVars, blVars, reportVars>>

\* The blacklist section is exhausted.
BlacklistDone ==
    /\ vw_pc = "blacklist"
    /\ vw_pc' = "observation"
    /\ UNCHANGED <<vw_result, whitelist_results, blacklist_results, observation_results,
                   vw_exit_code>>
    /\ UNCHANGED <<profVars, dedupVars, v2Vars, depthVars, blVars, reportVars>>

\* verify_all_pools: one observation pool is verified.
VerifyObservation ==
    /\ vw_pc = "observation"
    /\ Len(observation_results) < MaxOther
    /\ \E o \in Observations :
         /\ vw_result' = verify_pool(o)
         /\ observation_results' = Append(observation_results, WlKept(verify_pool(o)))
    /\ UNCHANGED <<vw_pc, whitelist_results, blacklist_results, vw_exit_code>>
    /\ UNCHANGED <<profVars, dedupVars, v2Vars, depthVars, blVars, reportVars>>

\* The observation section is exhausted: the quote matrix is run and
\* printed (it leaves nothing the exit code depends on), the report and the
\* summary are printed and main exits.
WlExit ==
    /\ vw_pc = "observation"
    /\ vw_pc' = "done"
    /\ vw_exit_code' = IF print_summary(whitelist_results) > 0 THEN 1 ELSE 0
    /\ UNCHANGED <<vw_result, whitelist_results, blacklist_results, observation_results>>
    /\ UNCHANGED <<profVars, dedupVars, v2Vars, depthVars, blVars, reportVars>>

WlNext ==
    \/ VerifyWhitelisted
    \/ WhitelistDone
    \/ CheckBlacklisted
    \/ BlacklistDone
    \/ VerifyObservation
    \/ WlExit

\* check_blacklist_pool on its own, one eth_call at a time.
BlInit ==
    /\ bl_pc = "quotes"
    /\ bl_known \in BOOLEAN
    /\ bl_calls = <<>>
    /\ bl_result = None

\* The next check_quote or _quote_raw call.  With an unknown pair both
\* return before the eth_call.
BlCall ==
    /\ bl_pc = "quotes"
    /\ Len(bl_calls) < 4
    /\ Len(bl_calls) = 2 => ~BlReturnsEarly(bl_known, bl_calls)
    /\ \E resp \in BlQuoteOutcomes(BlSizes[Len(bl_calls) + 1]) :
         bl_calls' = Append(bl_calls, IF bl_known THEN resp ELSE CallFailed)
    /\ UNCHANGED <<bl_pc, bl_known, bl_result>>
    /\ UNCHANGED <<profVars, dedupVars, v2Vars, depthVars, wlVars, reportVars>>

BlReturn ==
    /\ bl_pc = "quotes"
    /\ \/ Len(bl_calls) = 2 /\ BlReturnsEarly(bl_known, bl_calls)
       \/ Len(bl_calls) = 4
    /\ bl_result' = check_blacklist_pool(bl_known, bl_calls)
    /\ bl_pc' = "returned"
    /\ UNCHANGED <<bl_known, bl_calls>>
    /\ UNCHANGED <<profVars, dedupVars, v2Vars, depthVars, wlVars, reportVars>>

BlNext ==
    \/ BlCall
    \/ BlReturn

(***************************************************************************)
(* hourly_discord_report.py: main's loop and parse_opportunities.  The     *)
(* paper-trading bot writes its log lines into the pane while the          *)
(* publisher waits.                                                        *)
(***************************************************************************)
\* The clock runs up to MaxTime ticks, the pane holds up to MaxLog lines.
MaxTime == 5
MaxLog == 3

\* timedelta(hours=REPORT_INTERVAL_HOURS), in ticks
REPORT_INTERVAL == 2

\* parse_opportunities: the lines that hold FOUND, match the pattern and
\* are stamped at or after period_start, as indices into the pane.
parse_opportunities(raw_output, period_start) ==
    { n \in 1..Len(raw_output) :
        /\ raw_output[n].found
        /\ ~(raw_output[n].timestamp < period_start) }

\* main is about to enter its loop: the first report is due at the next
\* full hour (or midnight), which lies ahead.
ReportInit ==
    /\ rp_now = 0
    /\ rp_log = <<>>
    /\ next_report = REPORT_INTERVAL
    /\ reports = <<>>

\* Time passes (main sleeps, or is busy sending).
RpTick ==
    /\ rp_now < MaxTime
    /\ rp_now' = rp_now + 1
    /\ UNCHANGED <<rp_log, next_report, reports>>
    /\ UNCHANGED <<profVars, dedupVars, v2Vars, depthVars, wlVars, blVars>>

\* The bot logs a line stamped with the current time: a FOUND opportunity or
\* any other line.
RpLog ==
    /\ Len(rp_log) < MaxLog
    /\ \E found \in BOOLEAN :
         rp_log' = Append(rp_log, [timestamp |-> rp_now, found |-> found])
    /\ UNCHANGED <<rp_now, next_report, reports>>
    /\ UNCHANGED <<profVars, dedupVars, v2Vars, depthVars, wlVars, blVars>>

\* One pass of main's loop with wait_seconds <= 0: the pane is captured and
\* parsed, the report is sent and the next one scheduled.
RpReport ==
    /\ ~(next_report - rp_now > 0)
    /\ LET period_end   == next_report
           period_start == period_end - REPORT_INTERVAL
       IN  /\ reports' = Append(reports,
                            [ period_start  |-> period_start,
                              period_end    |-> period_end,
                              opportunities |-> parse_opportunities(rp_log, period_start) ])
           /\ next_report' = period_end + REPORT_INTERVAL
    /\ UNCHANGED <<rp_now, rp_log>>
    /\ UNCHANGED <<profVars, dedupVars, v2Vars, depthVars, wlVars, blVars>>

ReportNext ==
    \/ RpTick
    \/ RpLog
    \/ RpReport

(***************************************************************************)
(* Specifications.  Each program runs alone; the variables of the others   *)
(* stay at their idle values.                                              *)
(***************************************************************************)
ProfIdle ==
    /\ script = "none" /\ pc = "idle" /\ pool_idx = 0 /\ size_idx = 1
    /\ baseline_rate = None /\ result = None /\ matrix_results = <<>>
    /\ listed = <<>> /\ exit_code = None
DedupIdle ==
    /\ dd_pc = "idle" /\ n_rows = 0 /\ block_prices = <<>>
    /\ size_results = <<>> /\ pair_combos = <<>>
V2Idle ==
    /\ v2_impl = "none" /\ v2_reserve_in = 0 /\ v2_reserve_out = 0 /\ v2_quotes = <<>>
    /\ v2_reason = ""
DepthIdle ==
    /\ da_pc = "idle" /\ da_pool = "none" /\ da_results = <<>>
    /\ assessment = None /\ assessments = <<>>

WlIdle ==
    /\ vw_pc = "idle" /\ vw_result = None /\ whitelist_results = <<>>
    /\ blacklist_results = <<>> /\ observation_results = <<>> /\ vw_exit_code = None
BlIdle ==
    /\ bl_pc = "idle" /\ bl_known = FALSE /\ bl_calls = <<>> /\ bl_result = None

ReportIdle ==
    /\ rp_now = 0 /\ rp_log = <<>> /\ next_report = 0 /\ reports = <<>>

InitProfiler == ProfInit /\ DedupIdle /\ V2Idle /\ DepthIdle /\ WlIdle /\ BlIdle /\ ReportIdle
SpecProfiler == InitProfiler /\ [][ProfNext]_vars

InitDedup == ProfIdle /\ DedupInit /\ V2Idle /\ DepthIdle /\ WlIdle /\ BlIdle /\ ReportIdle
SpecDedup == InitDedup /\ [][DedupNext]_vars

InitPriceLog == ProfIdle /\ DedupInit /\ V2Idle /\ DepthIdle /\ WlIdle /\ BlIdle /\ ReportIdle
SpecPriceLog == InitPriceLog /\ [][PriceLogNext]_vars

InitV2 == ProfIdle /\ DedupIdle /\ V2Init /\ DepthIdle /\ WlIdle /\ BlIdle /\ ReportIdle
SpecV2 == InitV2 /\ [][V2Next]_vars

InitDepth == ProfIdle /\ DedupIdle /\ V2Idle /\ DepthInit /\ WlIdle /\ BlIdle /\ ReportIdle
SpecDepth == InitDepth /\ [][DepthNext]_vars

InitWhitelist == ProfIdle /\ DedupIdle /\ V2Idle /\ DepthIdle /\ WlInit /\ BlIdle /\ ReportIdle
SpecWhitelist == InitWhitelist /\ [][WlNext]_vars

InitBlacklist == ProfIdle /\ DedupIdle /\ V2Idle /\ DepthIdle /\ WlIdle /\ BlInit /\ ReportIdle
SpecBlacklist == InitBlacklist /\ [][BlNext]_vars

InitReport == ProfIdle /\ DedupIdle /\ V2Idle /\ DepthIdle /\ WlIdle /\ BlIdle /\ ReportInit
SpecReport == InitReport /\ [][ReportNext]_vars

(***************************************************************************)
(* Properties.                                                             *)
(***************************************************************************)
Positive(x) == RatLt(RatInt(0), x)

\* (higher price - lower price) / lower price, less the two fees (in ppm),
\* times the trade size, less the fixed cost.
ExpectedNet(lo, hi, fee_ppm, size, fixed_cost) ==
    RatSub(RatMul(RatSub(RatDiv(RatSub(hi, lo), lo), Rat(fee_ppm, 1000000)),
                  RatInt(size)),
           fixed_cost)

\* The venue combinations of one (pair, block) that are given a net profit:
\* index pairs i < j with both prices positive.
Candidates(bk) ==
    { c \in (1..Len(block_prices[bk])) \X (1..Len(block_prices[bk])) :
        /\ c[1] < c[2]
        /\ Positive(block_prices[bk][c[1]].price)
        /\ Positive(block_prices[bk][c[2]].price) }

CandidateNet(bk, c, size, fixed_cost) ==
    LET a == block_prices[bk][c[1]]
        b == block_prices[bk][c[2]]
    IN  ExpectedNet(RatMin(a.price, b.price), RatMax(a.price, b.price),
                    a.fee + b.fee, size, fixed_cost)

\* The price a (pair, block) holds for a venue.
PriceAt(bk, venue) ==
    LET n == CHOOSE m \in 1..Len(block_prices[bk]) :
                 <<block_prices[bk][m].dex, block_prices[bk][m].fee>> = venue
    IN  block_prices[bk][n].price

\* C1: for every trade size the aggregator keeps at most one opportunity per
\* (pair, block): the kept ones are keyed by (pair, block) and counted once
\* each; and the kept net profit is the net of one of the group's venue
\* combinations and is greater than or equal to the net of every other one.
C1_KeepsBestPerPairBlock ==
    dd_pc = "dedup_done" =>
        \A n \in 1..Len(TRADE_SIZES) :
            LET pbb == size_results[n].pair_block_best
            IN  /\ DOMAIN pbb \subseteq DOMAIN block_prices
                /\ size_results[n].total_count = Cardinality(DOMAIN pbb)
                /\ \A bk \in DOMAIN pbb :
                     /\ \E c \in Candidates(bk) :
                          CandidateNet(bk, c, TRADE_SIZES[n], GAS_COST_USD) = pbb[bk].net
                     /\ \A c \in Candidates(bk) :
                          RatLe(CandidateNet(bk, c, TRADE_SIZES[n], GAS_COST_USD),
                                pbb[bk].net)

\* A (pair, block) with two profitable combinations of different net, the
\* larger one kept.
C1_Witness ==
    /\ dd_pc = "dedup_done"
    /\ \E bk \in DOMAIN size_results[1].pair_block_best :
         \E c \in Candidates(bk) :
            /\ Positive(CandidateNet(bk, c, TRADE_SIZES[1], GAS_COST_USD))
            /\ RatLt(CandidateNet(bk, c, TRADE_SIZES[1], GAS_COST_USD),
                     size_results[1].pair_block_best[bk].net)

\* C2: a quote failure on one pool never aborts the run of the enhanced
\* verifier: whatever the quotes return, the run does not end in an uncaught
\* exception, and when it ends every input pool is in the results with a
\* category and a reason.
C2_QuoteFailureNeverAborts ==
    script = "enhanced" =>
        /\ pc # "crashed"
        /\ pc = "done" =>
             /\ Len(matrix_results) = NumPools
             /\ \A n \in 1..Len(matrix_results) :
                  /\ matrix_results[n].address = n
                  /\ matrix_results[n].category_suggestion
                         \in {"whitelist", "marginal", "blacklist"}
                  /\ matrix_results[n].category_reason # ""

\* The quote loop of a pool has run to its end and the score is computed.
Scored ==
    /\ script \in {"enhanced", "quickswap"}
    /\ result # None
    /\ pc \in {"main", "crashed", "done"}
    /\ Len(result.quotes) = Len(QUOTE_SIZES_USD)

\* C3: with impact_at_max missing the liquidity score is that of the last
\* branch of the size band: 60 from 5000 up, 30 from 1000 up, 20 from 100 up.
C3_MissingImpactScoredAsWorst ==
    (Scored /\ result.impact_at_max = None) =>
        /\ result.max_working_size >= 5000 => result.liquidity_score = 60
        /\ (result.max_working_size >= 1000 /\ result.max_working_size < 5000)
               => result.liquidity_score = 30
        /\ (result.max_working_size >= 100 /\ result.max_working_size < 1000)
               => result.liquidity_score = 20

\* The impact a profile reports: impact_at_max, or impact_pct in
\* verify_whitelist.
ReportedImpact == IF script = "whitelist" THEN result.impact_pct
                  ELSE result.impact_at_max

\* C4: the reported impact is defined only when the $1 probe succeeded and a
\* larger size succeeded as well.
C4_ImpactNeedsBaselineAndLarger ==
    (result # None /\ ReportedImpact # None) =>
        /\ Len(result.quotes) >= 2
        /\ result.quotes[1].size_usd = 1
        /\ result.quotes[1].pass
        /\ \E n \in 2..Len(result.quotes) : result.quotes[n].pass

\* A profile whose $1 probe failed and whose $10 probe succeeded, all sizes
\* quoted: the impact is undefined.
C4_Witness ==
    /\ script = "enhanced"
    /\ result # None
    /\ Len(result.quotes) = Len(QUOTE_SIZES_USD)
    /\ ~result.quotes[1].pass
    /\ result.quotes[2].pass
    /\ result.impact_at_max = None

Occurrences(key) ==
    { bk \in DOMAIN block_prices :
        /\ bk[1] = key[1]
        /\ \E c \in Candidates(bk) :
             { <<block_prices[bk][c[1]].dex, block_prices[bk][c[1]].fee>>,
               <<block_prices[bk][c[2]].dex, block_prices[bk][c[2]].fee>> }
                 = {key[2], key[3]}
        /\ key[2] # key[3]
        /\ RatLt(PriceAt(bk, key[3]), PriceAt(bk, key[2])) }

\* C6: net_profit = (midmarket_spread - round_trip_fee) * trade_size -
\* fixed_cost, with midmarket_spread = (higher price - lower price) / lower
\* price and round_trip_fee the sum of the two fees.  For prices 100.00 and
\* 100.50, fees of 0.30 % together, fixed cost 0.01 and size 5000 it is 9.99;
\* every kept opportunity carries the net of its two venues; and the largest
\* net of a price-log combination is the largest of its occurrences' nets,
\* or 0.
C6_NetProfitFormula ==
    /\ NetProfit(RatInt(100), Rat(201, 2), 500, 2500, 5000, Rat(1, 100)) = Rat(999, 100)
    /\ dd_pc = "dedup_done" =>
        \A n \in 1..Len(TRADE_SIZES) :
            \A bk \in DOMAIN size_results[n].pair_block_best :
                LET kept  == size_results[n].pair_block_best[bk]
                    route == kept.route
                IN  kept.net = ExpectedNet(PriceAt(bk, route.sell), PriceAt(bk, route.buy),
                                           route.buy[2] + route.sell[2],
                                           TRADE_SIZES[n], GAS_COST_USD)
    /\ dd_pc = "price_log_done" =>
        \A key \in DOMAIN pair_combos :
            LET NetAt(bk) == ExpectedNet(PriceAt(bk, key[3]), PriceAt(bk, key[2]),
                                         key[2][2] + key[3][2],
                                         TRADE_SIZE_USD, ESTIMATED_GAS_USD)
                max_net   == pair_combos[key].max_net
            IN  /\ \A bk \in Occurrences(key) : RatLe(NetAt(bk), max_net)
                /\ \/ max_net = RatInt(0)
                   \/ \E bk \in Occurrences(key) : NetAt(bk) = max_net

\* Two venues at 100.00 and 100.50 with fees of 0.05 % and 0.25 %: at trade
\* size 5000 and gas 0.88 the kept net is (0.005 - 0.003) * 5000 - 0.88 = 9.12.
C6_Witness ==
    /\ dd_pc = "dedup_done"
    /\ \E bk \in DOMAIN size_results[4].pair_block_best :
         LET kept == size_results[4].pair_block_best[bk]
         IN  /\ {PriceAt(bk, kept.route.buy), PriceAt(bk, kept.route.sell)}
                    = {RatInt(100), Rat(201, 2)}
             /\ kept.route.buy[2] + kept.route.sell[2] = 3000
             /\ kept.net = Rat(912, 100)

\* C7 as stated: of two succeeding quotes against the same reserves
\* the one for the larger input has no better rate: out2 / in2 <= out1 / in1.
C7_RateNeverImproves ==
    \A i, j \in 1..Len(v2_quotes) :
        (i < j /\ v2_quotes[i].pass /\ v2_quotes[j].pass) =>
            v2_quotes[j].amount_out * v2_quotes[i].amount_in
                <= v2_quotes[i].amount_out * v2_quotes[j].amount_in

\* C7, amended: of two succeeding quotes against the same reserves the one
\* for the larger input has a rate below that of the smaller quote rounded up
\* by one unit: out2 / in2 < (out1 + 1) / in1.
C7_RateWithinOneUnit ==
    \A i, j \in 1..Len(v2_quotes) :
        (i < j /\ v2_quotes[i].pass /\ v2_quotes[j].pass) =>
            v2_quotes[j].amount_out * v2_quotes[i].amount_in
                < (v2_quotes[i].amount_out + 1) * v2_quotes[j].amount_in

\* Two succeeding quotes, the larger input with the strictly better rate.
C7_Witness ==
    \E i, j \in 1..Len(v2_quotes) :
        /\ i < j /\ v2_quotes[i].pass /\ v2_quotes[j].pass
        /\ v2_quotes[j].amount_out * v2_quotes[i].amount_in
               > v2_quotes[i].amount_out * v2_quotes[j].amount_in

\* C8: every price impact depth_assessment reports is at least 0 when it is
\* defined.
C8_ImpactNonNegative ==
    assessment # None =>
        /\ assessment.impact_500 # None => RatLe(RatInt(0), assessment.impact_500)
        /\ assessment.impact_5000 # None => RatLe(RatInt(0), assessment.impact_5000)

\* The largest size of a quote list that passed, 0 when none did.
LargestPassed(quotes) ==
    LET passing == { quotes[n].size_usd : n \in { m \in 1..Len(quotes) : quotes[m].pass } }
    IN  IF passing = {} THEN 0
        ELSE CHOOSE m \in passing : \A x \in passing : x <= m

\* C9: max_working_size is the largest ladder size whose quote succeeded, 0
\* when every probe failed, and always a ladder size or 0.
C9_MaxWorkingSizeIsLargestPassed ==
    (script \in {"enhanced", "quickswap"} /\ result # None) =>
        /\ result.max_working_size = LargestPassed(result.quotes)
        /\ result.max_working_size
               \in {0} \cup { QUOTE_SIZES_USD[n] : n \in 1..Len(QUOTE_SIZES_USD) }

\* A finished ladder with a gap: $100 failed, $1000 passed, $5000 failed.
C9_Witness ==
    /\ script \in {"enhanced", "quickswap"}
    /\ result # None
    /\ Len(result.quotes) = Len(QUOTE_SIZES_USD)
    /\ ~result.quotes[3].pass
    /\ result.quotes[4].pass
    /\ ~result.quotes[5].pass
    /\ result.max_working_size = 1000

\* abs(1 - rate at the given size / rate at $1) * 100, from the raw quotes.
ImpactAtSize(quotes, size_usd) ==
    LET q == quotes[CHOOSE n \in 1..Len(quotes) : quotes[n].size_usd = size_usd]
    IN  RatMul(RatAbs(RatSub(RatInt(1),
                   RatDiv(Rat(q.raw_out, q.size_usd), Rat(quotes[1].raw_out, 1)))),
               RatInt(100))

\* C10: when defined, the reported impact is the impact at the largest size
\* that succeeded, whatever failed in between.
C10_ImpactIsAtLargestPassed ==
    (result # None /\ ReportedImpact # None) =>
        /\ ReportedImpact = ImpactAtSize(result.quotes, LargestPassed(result.quotes))
        /\ script = "whitelist" => result.impact_size = LargestPassed(result.quotes)
        /\ script # "whitelist" => result.max_working_size = LargestPassed(result.quotes)

\* $10 passed at 1 % impact, $100 failed, $1000 passed at 8 %, $5000 failed:
\* the impact reported is 8 %.
C10_Witness ==
    /\ result # None
    /\ Len(result.quotes) = Len(QUOTE_SIZES_USD)
    /\ result.quotes[2].pass
    /\ ~result.quotes[3].pass
    /\ result.quotes[4].pass
    /\ ~result.quotes[5].pass
    /\ ReportedImpact = RatInt(8)
    /\ ImpactAtSize(result.quotes, 10) = RatInt(1)

\* The quote loop of the current pool was entered: verify_whitelist always
\* enters it, the other profilers when the pool exists and is initialized.
LoopEntered ==
    \/ script = "whitelist"
    \/ result.pool_state.exists /\ result.pool_state.initialized

ScoreTable(max_size, impact) ==
    CASE max_size >= 5000 ->
             (CASE RatLt(impact, RatInt(2))  -> 100
                [] RatLt(impact, RatInt(5))  -> 90
                [] RatLt(impact, RatInt(10)) -> 75
                [] OTHER                     -> 60)
      [] max_size >= 1000 /\ max_size < 5000 ->
             (CASE RatLt(impact, RatInt(5))  -> 70
                [] RatLt(impact, RatInt(10)) -> 50
                [] OTHER                     -> 30)
      [] max_size >= 100 /\ max_size < 1000 ->
             (CASE RatLt(impact, RatInt(10)) -> 35
                [] OTHER                     -> 20)
      [] max_size >= 10 /\ max_size < 100 -> 10
      [] max_size > 0 /\ max_size < 10 -> 5
      [] OTHER -> 0

\* Impacts below, at and above every band edge.
TableImpacts ==
    { RatInt(0), Rat(199, 100), RatInt(2), Rat(499, 100), RatInt(5),
      Rat(999, 100), RatInt(10), RatInt(20) }

LadderOrZero == {0} \cup { QUOTE_SIZES_USD[n] : n \in 1..Len(QUOTE_SIZES_USD) }

\* C12: for every max_working_size of the ladder or 0 and every defined
\* impact the score is the first matching band of the table; a profile whose
\* only success is the smallest size scores 5 and an all-failing one 0.  It
\* holds of the scorer on every size and every impact around the band edges
\* (evaluated between two pools), and of the score of every profile.
C12_ScoreIsFirstMatchingBand ==
    /\ pc = "main" =>
         \A max_size \in LadderOrZero : \A impact \in TableImpacts :
            calculate_liquidity_score(max_size, impact) = ScoreTable(max_size, impact)
    /\ (Scored /\ script = "enhanced") =>
         /\ result.impact_at_max # None =>
              result.liquidity_score
                  = ScoreTable(result.max_working_size, result.impact_at_max)
         /\ result.max_working_size = 1 => result.liquidity_score = 5
         /\ result.max_working_size = 0 => result.liquidity_score = 0

\* A profile that reaches $5000 at 8 % impact scores 75.
C12_Witness ==
    /\ Scored
    /\ script = "enhanced"
    /\ result.max_working_size = 5000
    /\ result.impact_at_max = RatInt(8)
    /\ result.liquidity_score = 75

\* The enhanced verifier has returned the profile of a pool to main.
Profiled ==
    /\ script = "enhanced"
    /\ result # None
    /\ pc \in {"main", "done"}

\* C13: the validity rules come first and in order, each with its own
\* reason: an absent contract is rejected as non-existent, else an
\* uninitialized pool as uninitialized, else liquidity below the floor for
\* liquidity, else max_working_size = 0 because all quotes failed.
C13_ValidityRulesInOrder ==
    Profiled =>
        LET ps == result.pool_state
        IN  /\ ~ps.exists =>
                 /\ result.category_suggestion = "blacklist"
                 /\ result.category_reason = "Pool doesn't exist"
            /\ (ps.exists /\ ~ps.initialized) =>
                 /\ result.category_suggestion = "blacklist"
                 /\ result.category_reason = "Pool not initialized (sqrtPrice = 0)"
            /\ (ps.exists /\ ps.initialized
                    /\ ps.liquidity < THRESHOLDS.min_liquidity_base) =>
                 /\ result.category_suggestion = "blacklist"
                 /\ result.category_reason = "Liquidity too low"
            /\ (ps.exists /\ ps.initialized
                    /\ ps.liquidity >= THRESHOLDS.min_liquidity_base
                    /\ result.max_working_size = 0) =>
                 /\ result.category_suggestion = "blacklist"
                 /\ result.category_reason = "All quotes failed"

\* The depth rules for a defined impact (in percent).
DepthVerdict(max_size, impact) ==
    IF max_size >= THRESHOLDS.whitelist_min_size
    THEN IF RatLe(impact, THRESHOLDS.impact_whitelist) THEN "whitelist"
         ELSE IF RatLe(impact, THRESHOLDS.impact_marginal) THEN "marginal"
         ELSE "blacklist"
    ELSE IF max_size >= 10 /\ max_size <= THRESHOLDS.marginal_max_size
              /\ RatLe(impact, THRESHOLDS.impact_marginal)
         THEN "marginal"
    ELSE "blacklist"

ValidState == [exists |-> TRUE, initialized |-> TRUE,
               liquidity |-> THRESHOLDS.min_liquidity_base]

\* C14: for a valid pool with a successful probe the category follows the
\* depth rules: at or above the admission size, whitelist exactly when the
\* impact is at most the admission ceiling, marginal when above it and at
\* most the looser ceiling, blacklist above that; in the small-trade band
\* marginal only when the impact is at most the looser ceiling; blacklist in
\* every other case, a missing impact included.  Stated of every pool the
\* enhanced verifier has taken through its quote loop.
C14_DepthRules ==
    (/\ Scored /\ script = "enhanced"
     /\ result.pool_state.exists /\ result.pool_state.initialized
     /\ result.pool_state.liquidity >= THRESHOLDS.min_liquidity_base
     /\ result.max_working_size > 0) =>
        /\ pc # "crashed"
        /\ IF result.impact_at_max # None
           THEN result.category_suggestion
                    = DepthVerdict(result.max_working_size, result.impact_at_max)
           ELSE result.category_suggestion = "blacklist"

\* C15: a pool with an unknown asset or an unknown venue stops the whole
\* run: once such a pool has been met, main takes up no further pool.
C15_ConfigErrorStopsRun ==
    \A n \in 1..Len(assessments) :
        assessments[n].pool # "ok" =>
            /\ n = Len(assessments)
            /\ da_pc = "built"

\* The sum of the kept nets of the (pair, block) keys in todo.
RECURSIVE SumNets(_, _)
SumNets(pbb, todo) ==
    IF todo = {} THEN RatInt(0)
    ELSE LET bk == CHOOSE k \in todo : TRUE
         IN  RatAdd(pbb[bk].net, SumNets(pbb, todo \ {bk}))

\* C16: only combinations with a net profit above 0 become opportunities:
\* every kept net is above 0; a (pair, block) none of whose combinations nets
\* more than 0 is not kept; and the per-pair counts and totals and the grand
\* totals count and add the kept opportunities and nothing else.
C16_OnlyPositiveNetKept ==
    dd_pc = "dedup_done" =>
        \A n \in 1..Len(TRADE_SIZES) :
            LET pbb    == size_results[n].pair_block_best
                totals == size_results[n].pair_totals
                Of(pair) == { bk \in DOMAIN pbb : bk[1] = pair }
            IN  /\ \A bk \in DOMAIN pbb : Positive(pbb[bk].net)
                /\ \A bk \in DOMAIN block_prices :
                     (\A c \in Candidates(bk) :
                         ~Positive(CandidateNet(bk, c, TRADE_SIZES[n], GAS_COST_USD)))
                       => bk \notin DOMAIN pbb
                /\ DOMAIN totals = { bk[1] : bk \in DOMAIN pbb }
                /\ \A pair \in DOMAIN totals :
                     /\ totals[pair].count = Cardinality(Of(pair))
                     /\ totals[pair].total_net = SumNets(pbb, Of(pair))
                /\ size_results[n].total_count = Cardinality(DOMAIN pbb)
                /\ size_results[n].total_net = SumNets(pbb, DOMAIN pbb)

\* A (pair, block) with two venues at different positive prices whose spread
\* does not cover fees and gas at the largest size: nothing is kept and the
\* counts and totals stay empty.
C16_Witness ==
    /\ dd_pc = "dedup_done"
    /\ \E bk \in DOMAIN block_prices :
         /\ \E c \in Candidates(bk) :
              block_prices[bk][c[1]].price # block_prices[bk][c[2]].price
         /\ bk \notin DOMAIN size_results[7].pair_block_best
    /\ DOMAIN size_results[7].pair_totals = {}
    /\ size_results[7].total_count = 0
    /\ size_results[7].total_net = RatInt(0)

\* The combinations of a (pair, block) whose net equals the given one.
WithNet(bk, size, net) ==
    { c \in Candidates(bk) : CandidateNet(bk, c, size, GAS_COST_USD) = net }

\* The first of a set of index pairs in the order of the loops over i and j.
FirstInLoopOrder(cs) ==
    CHOOSE c \in cs :
        \A d \in cs : c[1] < d[1] \/ (c[1] = d[1] /\ c[2] <= d[2])

VenuesOf(bk, c) ==
    { <<block_prices[bk][c[1]].dex, block_prices[bk][c[1]].fee>>,
      <<block_prices[bk][c[2]].dex, block_prices[bk][c[2]].fee>> }

\* C17: when several combinations of a (pair, block) have the same, maximal,
\* net profit, the kept route is that of the first of them in the order of
\* the loops over the venues.
C17_TieKeepsFirst ==
    dd_pc = "dedup_done" =>
        \A n \in 1..Len(TRADE_SIZES) :
            \A bk \in DOMAIN size_results[n].pair_block_best :
                LET kept  == size_results[n].pair_block_best[bk]
                    first == FirstInLoopOrder(WithNet(bk, TRADE_SIZES[n], kept.net))
                IN  {kept.route.buy, kept.route.sell} = VenuesOf(bk, first)

\* Three venues of one (pair, block), two combinations with the same maximal
\* net: the kept route is the first one's.
C17_Witness ==
    /\ dd_pc = "dedup_done"
    /\ \E bk \in DOMAIN size_results[1].pair_block_best :
         LET kept == size_results[1].pair_block_best[bk]
             tied == WithNet(bk, TRADE_SIZES[1], kept.net)
         IN  /\ Cardinality(tied) >= 2
             /\ \E c \in tied : VenuesOf(bk, c) # {kept.route.buy, kept.route.sell}
             /\ {kept.route.buy, kept.route.sell}
                    = VenuesOf(bk, FirstInLoopOrder(tied))

\* C18: a (pair, block) priced by fewer than two venues yields no
\* opportunity and does not stop the aggregation: the analysis ends, and
\* every (pair, block) with a combination that nets more than 0 is kept,
\* whatever other groups there are.
C18_ShortGroupSkipped ==
    dd_pc = "dedup_done" =>
        \A n \in 1..Len(TRADE_SIZES) :
            \A bk \in DOMAIN block_prices :
                /\ Len(block_prices[bk]) < 2 =>
                     bk \notin DOMAIN size_results[n].pair_block_best
                /\ (\E c \in Candidates(bk) :
                       Positive(CandidateNet(bk, c, TRADE_SIZES[n], GAS_COST_USD)))
                     => bk \in DOMAIN size_results[n].pair_block_best

\* A block with one venue, read first, and a block with two venues that is
\* kept.
C18_Witness ==
    /\ dd_pc = "dedup_done"
    /\ \E short, full \in DOMAIN block_prices :
         /\ Len(block_prices[short]) = 1
         /\ Len(block_prices[full]) = 2
         /\ block_prices[short][1].seq < block_prices[full][1].seq
         /\ short \notin DOMAIN size_results[1].pair_block_best
         /\ full \in DOMAIN size_results[1].pair_block_best

\* C19: the constant-product quote fails whenever a reserve or the input
\* amount is zero: such a probe has output 0 and does not pass; and
\* depth_assessment, whose formula has no guard, takes no probe at all from
\* a pool with a zero reserve but gives the pool up.
C19_ZeroReserveOrAmountFails ==
    /\ \A n \in 1..Len(v2_quotes) :
         (v2_reserve_in = 0 \/ v2_reserve_out = 0 \/ v2_quotes[n].amount_in = 0) =>
             /\ v2_quotes[n].amount_out = 0
             /\ ~v2_quotes[n].pass
    /\ (v2_impl = "depth_assessment" /\ (v2_reserve_in = 0 \/ v2_reserve_out = 0)) =>
         v2_quotes = <<>>
    /\ v2_reason # "" => v2_quotes = <<>>

\* verify_v2_pools with an empty input reserve and a non-empty output
\* reserve: a probe of a positive amount was taken and failed.
C19_Witness ==
    /\ v2_impl = "verify_v2_pools"
    /\ v2_reserve_in = 0
    /\ v2_reserve_out > 0
    /\ \E n \in 1..Len(v2_quotes) :
         v2_quotes[n].amount_in > 0 /\ ~v2_quotes[n].pass

\* A pool whose suggested category is not the list it is in (the observation
\* list has no category of its own and is left out).
NeedsRecategorization(n) ==
    /\ listed[n] # "observation"
    /\ matrix_results[n].category_suggestion # listed[n]

\* C20: verify_whitelist_enhanced exits with 0 only when no pool failed or
\* needs recategorization, and with 1 whenever some pool's suggested category
\* differs from the list it is in.
C20_ExitCodeReflectsRecategorization ==
    (script = "enhanced" /\ pc = "done") =>
        /\ exit_code \in {0, 1}
        /\ exit_code = 1 <=> \E n \in 1..Len(matrix_results) : NeedsRecategorization(n)

\* Every one of the five checks of a verify_pool result passed.
AllFivePass(r) == \A n \in 1..Len(CheckNames) : r.checks[CheckNames[n]].pass

\* C21: verify_whitelist exits with 0 exactly when every whitelisted pool
\* passes all five checks and with 1 when some whitelisted pool fails a
\* check; a pool without bytecode fails all five checks and only the exists
\* check is executed for it.
C21_ExitCodeFromFiveChecks ==
    /\ vw_pc = "done" =>
         /\ vw_exit_code \in {0, 1}
         /\ vw_exit_code = 0 <=>
              \A n \in 1..Len(whitelist_results) : AllFivePass(whitelist_results[n])
    /\ (vw_result # None /\ ~vw_result.checks.exists.pass) =>
         /\ \A n \in 1..Len(CheckNames) : ~vw_result.checks[CheckNames[n]].pass
         /\ vw_result.executed = {"exists"}

\* main has exited with 1 after one whitelisted pool passed all five checks
\* and another, the one verified last, had no bytecode.
C21_Witness ==
    /\ vw_pc = "done"
    /\ vw_exit_code = 1
    /\ Len(whitelist_results) = 2
    /\ Len(observation_results) = 0
    /\ AllFivePass(whitelist_results[1])
    /\ ~whitelist_results[2].checks.exists.pass
    /\ vw_result.executed = {"exists"}

\* C22: for every pool state and every depth profile a quote loop has
\* produced, a missing impact included, verify_quickswap_pools' scorer and
\* categorizer give the same liquidity score and the same category as
\* verify_whitelist_enhanced's.
C22_QuickswapSameAsEnhanced ==
    Scored =>
        /\ qs_calculate_liquidity_score(result.max_working_size, result.impact_at_max)
             = calculate_liquidity_score(result.max_working_size, result.impact_at_max)
        /\ qs_categorize_pool(result).raised = categorize_pool(result).raised
        /\ qs_categorize_pool(result).category = categorize_pool(result).category

\* C23: every pool verify_whitelist_enhanced categorizes as whitelist has a
\* liquidity score of at least 60, and every pool it categorizes as marginal
\* has a liquidity score from 20 to 59.
C23_CategoryMatchesScore ==
    (Scored /\ script = "enhanced" /\ pc # "crashed") =>
        /\ result.category_suggestion = "whitelist" => result.liquidity_score >= 60
        /\ result.category_suggestion = "marginal" =>
             (result.liquidity_score >= 20 /\ result.liquidity_score <= 59)

\* The quote of amt raw units for size dollars succeeded and its impact
\* 1 - amt / (size * amt_100 / 100) is below 2 %, that is
\* amt / (size * amt_100 / 100) > 98 / 100.
Qualifies(amt, size, amt_100) ==
    /\ amt # NoQuote /\ amt > 0
    /\ amt * 100 * 100 > 98 * size * amt_100

\* C24: max_trade_usd is the largest of 500 and 5000 whose quote succeeded
\* with an impact below 2 % of the $100 rate, 100 when neither does and the
\* $100 quote succeeded, 0 when the $100 quote failed; the verdict is ADD
\* exactly when max_trade_usd >= 500, DEAD exactly when the $100 quote failed,
\* THIN otherwise.
C24_MaxTradeAndVerdict ==
    (da_pc = "built" /\ assessment # None) =>
        LET ok_100 == assessment.out_100 # NoQuote /\ assessment.out_100 > 0
            q_500  == ok_100 /\ Qualifies(assessment.out_500, 500, assessment.out_100)
            q_5000 == ok_100 /\ Qualifies(assessment.out_5000, 5000, assessment.out_100)
        IN  /\ assessment.max_trade_usd =
                 (IF ~ok_100 THEN 0
                  ELSE IF q_5000 THEN 5000
                  ELSE IF q_500 THEN 500
                  ELSE 100)
            /\ assessment.verdict = "ADD" <=> assessment.max_trade_usd >= 500
            /\ assessment.verdict = "DEAD" <=> ~ok_100
            /\ assessment.verdict = "THIN" <=> (ok_100 /\ assessment.max_trade_usd < 500)

\* An assessment whose $5000 quote succeeded with 3 % impact and whose $500
\* quote has 1 %: 500 is recommended and the verdict is ADD.
C24_Witness ==
    /\ da_pc = "built" /\ assessment # None
    /\ assessment.out_100 = 1000
    /\ assessment.out_5000 = 48500
    /\ assessment.out_500 = 4950
    /\ assessment.max_trade_usd = 500
    /\ assessment.verdict = "ADD"

\* C25: every opportunity counted in a report is stamped inside that
\* report's period, from period_start to period_end, and no logged
\* opportunity is counted in two reports.
C25_ReportsCountEachOpportunityOnce ==
    /\ \A r \in 1..Len(reports) : \A n \in reports[r].opportunities :
         /\ reports[r].period_start <= rp_log[n].timestamp
         /\ rp_log[n].timestamp <= reports[r].period_end
    /\ \A r1, r2 \in 1..Len(reports) :
         r1 # r2 => reports[r1].opportunities \cap reports[r2].opportunities = {}

\* C26: for positive reserves and a positive amount_in the quote never lets
\* the product of the reserves decrease,
\* (reserve_in + amount_in) * (reserve_out - amount_out) >= reserve_in * reserve_out,
\* and amount_out is strictly less than reserve_out.
C26_ProductNeverDecreases ==
    (v2_reserve_in > 0 /\ v2_reserve_out > 0) =>
        \A n \in 1..Len(v2_quotes) :
            v2_quotes[n].amount_in > 0 =>
                /\ (v2_reserve_in + v2_quotes[n].amount_in)
                       * (v2_reserve_out - v2_quotes[n].amount_out)
                     >= v2_reserve_in * v2_reserve_out
                /\ v2_quotes[n].amount_out < v2_reserve_out

\* verify_v2_pools has quoted the largest amount against the largest
\* reserves and pays out a positive amount.
C26_Witness ==
    /\ v2_impl = "verify_v2_pools"
    /\ v2_reserve_in = MaxReserve /\ v2_reserve_out = MaxReserve
    /\ \E n \in 1..Len(v2_quotes) :
         v2_quotes[n].amount_in = MaxAmount /\ v2_quotes[n].amount_out > 0

\* C27: for trade sizes s1 < s2 every (pair, block) that yields an
\* opportunity at s1 yields one at s2 whose net profit is at least as large,
\* and the profitable-block count and the total net profit at s2 are at
\* least those at s1.
C27_MonotoneInTradeSize ==
    dd_pc = "dedup_done" =>
        \A i, j \in 1..Len(TRADE_SIZES) :
            TRADE_SIZES[i] < TRADE_SIZES[j] =>
                /\ \A bk \in DOMAIN size_results[i].pair_block_best :
                     /\ bk \in DOMAIN size_results[j].pair_block_best
                     /\ RatLe(size_results[i].pair_block_best[bk].net,
                              size_results[j].pair_block_best[bk].net)
                /\ size_results[i].total_count <= size_results[j].total_count
                /\ RatLe(size_results[i].total_net, size_results[j].total_net)

\* A (pair, block) that yields an opportunity at the smallest size and a
\* strictly larger net, and total, at the largest.
C27_Witness ==
    /\ dd_pc = "dedup_done"
    /\ \E bk \in DOMAIN size_results[1].pair_block_best :
         RatLt(size_results[1].pair_block_best[bk].net,
               size_results[Len(TRADE_SIZES)].pair_block_best[bk].net)
    /\ size_results[1].total_count > 0
    /\ RatLt(size_results[1].total_net, size_results[Len(TRADE_SIZES)].total_net)

\* The largest element of a non-empty sequence of rationals.
RatMaxOf(seq) ==
    seq[CHOOSE n \in 1..Len(seq) : \A m \in 1..Len(seq) : RatLe(seq[m], seq[n])]

\* C28: after the spread analysis the max_spread of every venue combination
\* is the largest spread percentage recorded for it, the maximum of its
\* spreads list.
C28_MaxSpreadIsLargestRecorded ==
    dd_pc = "price_log_done" =>
        \A k \in DOMAIN pair_combos :
            pair_combos[k].max_spread = RatMaxOf(pair_combos[k].spreads)

\* The n-th call of check_blacklist_pool was made and returned an amount.
BlSucceeded(n) == n <= Len(bl_calls) /\ bl_calls[n] # CallFailed /\ bl_calls[n] > 0

\* C29: check_blacklist_pool returns still_dead = False only if a $1 quote
\* and a $140 quote succeeded and the impact of a successful $140 quote on
\* the rate of a successful $1 quote is at most 5 %, whatever the four quote
\* calls return.
C29_RecoveredOnlyWithLowImpact ==
    (bl_pc = "returned" /\ ~bl_result.still_dead) =>
        \E i \in {1, 3}, j \in {2, 4} :
            /\ BlSucceeded(i) /\ BlSucceeded(j)
            /\ RatLe(BlImpactPct(bl_calls[i], bl_calls[j]), RatInt(5))

=============================================================================
